---- MODULE Spec2Model ----
(***************************************************************************)
(* pecs-go: a sparse-set entity component system.                          *)
(*                                                                         *)
(* The module models the entity manager (generational handles and the      *)
(* free list threaded through the generation array), the sparse set, the   *)
(* component pools behind the registry, the World facade over them, the    *)
(* queries of Query and ViewBuilder and the typed iterators.               *)
(*                                                                         *)
(* A uint32 is held as its 32-bit two's-complement integer (0xFFFFFFFF is  *)
(* -1), because the model checker's integers are 32 bits wide; with        *)
(* floored \div and % the masks and shifts of the code give the same bits. *)
(* Go slices are sequences: slot i of a slice is element i+1.              *)
(***************************************************************************)
EXTENDS Integers, Sequences, FiniteSets, TLC

VARIABLES
    entities,   \* EntityManager.entities: stored uint32 per entity index
    freeHead,   \* EntityManager.freeHead: first free index, or -1
    op,         \* the last call made: its name, arguments and results
    live,       \* handles returned by Create and not destroyed since
    destroyed,  \* handles whose World.DestroyEntity has succeeded
    slotGen,    \* per index, the generation of the last handle issued for it
    issued,     \* handles returned by Create since construction or the last Clear
    freed,      \* indices destroyed and not reissued since, the latest destroyed last
    registry,   \* World.componentRegistry: nextID, typeToID and storages
    ss,         \* a SparseSet on its own
    members,    \* handles whose Insert into ss succeeded, not removed since
    pool,       \* a ComponentPool on its own
    lastVal,    \* per handle, the value of the last Insert into pool, 0 if none
    query,      \* a Query or ViewBuilder under construction
    result,     \* the QueryResult of the last Build
    iter,       \* an Iterator1, 2 or 3: its types, its pools, the position of ForEach
    visited,    \* the calls ForEach has made of its callback, in order
    strict,     \* the callbacks so far removed from the visited entity only
    systemManager  \* World.systemManager: systems in order, and the enabled map

vars == <<entities, freeHead, op, live, destroyed, slotGen, issued, freed, registry,
          ss, members, pool, lastVal, query, result, iter, visited, strict,
          systemManager>>

emVars == <<entities, freeHead, live, destroyed, slotGen, issued, freed>>
worldVars == <<registry>>
ssVars == <<ss, members>>
poolVars == <<pool, lastVal>>
queryVars == <<query, result>>
iterVars == <<iter, visited, strict>>
sysVars == <<systemManager>>

(***************************************************************************)
(* Bounds of the model                                                     *)
(***************************************************************************)
MaxEntities == 3        \* slots the entity array may grow to
MaxGen == 2             \* generations of the handles passed in
MaxWorldEntities == 1   \* slots of the entity array under the World
MaxSSHandles == 3       \* handles given to the sparse set
MaxSSSize == 3          \* entries the sparse set may grow to
MaxPoolHandles == 3     \* handles given to the component pool
MaxPoolSize == 2        \* entries the component pool may grow to
MaxQueryEntities == 2   \* entities of the worlds that are queried
MaxCriteria == 2        \* component ids a query may name in all
MaxOther == 1           \* entries of the set handed to Respect
MaxPoolOther == 2       \* entries of the set handed to ComponentPool.Respect
MaxEdge == 2            \* distance of the fields given to makeEntity from the ends of their range

(***************************************************************************)
(* Entity: 20-bit index, 12-bit generation                                 *)
(***************************************************************************)
RECURSIVE Pow2(_)
Pow2(n) == IF n = 0 THEN 1 ELSE 2 * Pow2(n - 1)

EntityIndexBits == 20
EntityGenerationBits == 12
EntityIndexMask == Pow2(EntityIndexBits) - 1
EntityGenerationMask == Pow2(EntityGenerationBits) - 1
IndexRange == Pow2(EntityIndexBits)
GenerationRange == Pow2(EntityGenerationBits)
NullEntity == -1

\* x & mask, for a mask of the form 2^k - 1
BitAnd(x, mask) == x % (mask + 1)

\* the uint32 whose top EntityGenerationBits bits are g and low bits are low
\* (g << EntityIndexBits | low), as a two's-complement integer
ShiftOr(g, low) ==
    (IF 2 * g >= GenerationRange THEN g - GenerationRange ELSE g) * IndexRange + low

Index(e) == BitAnd(e, EntityIndexMask)

Generation(e) == BitAnd(e \div IndexRange, EntityGenerationMask)

EntityIsValid(e) == e # NullEntity

\* makeEntity with the index cut to EntityIndexBits - 1 bits
makeEntityNarrowIndex(index, generation) ==
    ShiftOr(BitAnd(generation, EntityGenerationMask), BitAnd(index, EntityIndexMask \div 2))

makeEntity(index, generation) ==
    ShiftOr(BitAnd(generation, EntityGenerationMask), BitAnd(index, EntityIndexMask))

(***************************************************************************)
(* EntityManager                                                           *)
(***************************************************************************)
NewEntityManager == [entities |-> <<>>, freeHead |-> -1]

\* Create: the manager after the call, the handle returned, and whether the
\* index was taken from the free list
EMCreate(em) ==
    IF em.freeHead >= 0
    THEN LET index == em.freeHead
             stored == em.entities[index + 1]
             generation == 0
             newHead == IF stored = em.freeHead THEN -1 ELSE stored
         IN [em |-> [entities |-> [em.entities EXCEPT ![index + 1] = generation],
                     freeHead |-> newHead],
             entity |-> makeEntity(index, generation),
             reused |-> TRUE]
    ELSE LET index == Len(em.entities)
             generation == 0
         IN [em |-> [entities |-> Append(em.entities, generation),
                     freeHead |-> em.freeHead],
             entity |-> makeEntity(index, generation),
             reused |-> FALSE]

EMIsValid(em, entity) ==
    /\ EntityIsValid(entity)
    /\ Index(entity) < Len(em.entities)
    /\ em.entities[Index(entity) + 1] = Generation(entity)

\* Destroy without the comparison of the stored value with the generation
EMDestroyNoGenCheck(em, entity) ==
    IF ~EntityIsValid(entity) \/ Index(entity) >= Len(em.entities)
    THEN [em |-> em, ret |-> FALSE]
    ELSE [em |-> [entities |->
                     [em.entities EXCEPT ![Index(entity) + 1] =
                         IF em.freeHead >= 0 THEN em.freeHead ELSE Index(entity)],
                  freeHead |-> Index(entity)],
          ret |-> TRUE]

\* Destroy: the manager after the call and the value returned
EMDestroy(em, entity) ==
    IF ~EntityIsValid(entity)
    THEN [em |-> em, ret |-> FALSE]
    ELSE LET index == Index(entity) IN
         IF index >= Len(em.entities)
         THEN [em |-> em, ret |-> FALSE]
         ELSE LET currentGen == em.entities[index + 1]
                  expectedGen == Generation(entity)
              IN IF currentGen # expectedGen
                 THEN [em |-> em, ret |-> FALSE]
                 ELSE [em |-> [entities |->
                                  [em.entities EXCEPT ![index + 1] =
                                      IF em.freeHead >= 0 THEN em.freeHead ELSE index],
                               freeHead |-> index],
                       ret |-> TRUE]

\* Size counting the indices that are off the free list
EMSizeOffFreeList(em) == IF em.freeHead >= 0 THEN Len(em.entities) - 1 ELSE Len(em.entities)

EMSize(em) == Len(em.entities)

EMClear(em) == [entities |-> <<>>, freeHead |-> -1]

\* the entity manager held in the variables
EM == [entities |-> entities, freeHead |-> freeHead]

IsValid(e) == EMIsValid(EM, e)

(***************************************************************************)
(* SparseSet: sparse[entityIndex] is a dense index or -1, dense[0..size)   *)
(* are the entities of the set                                             *)
(***************************************************************************)
NewSparseSet == [sparse |-> <<>>, dense |-> <<>>, size |-> 0]

SSEnsureCapacity(s, entityIndex) ==
    LET needed == entityIndex + 1
        oldLen == Len(s.sparse)
    IN IF oldLen < needed
       THEN [s EXCEPT !.sparse = s.sparse \o [i \in 1..(needed - oldLen) |-> -1]]
       ELSE s

SSContains(s, entity) ==
    /\ EntityIsValid(entity)
    /\ Index(entity) < Len(s.sparse)
    /\ LET denseIndex == s.sparse[Index(entity) + 1] IN
        /\ denseIndex >= 0
        /\ denseIndex < s.size
        /\ s.dense[denseIndex + 1] = entity

\* Insert: the set after the call and the value returned
SSInsert(s, entity) ==
    IF ~EntityIsValid(entity)
    THEN [ss |-> s, ret |-> FALSE]
    ELSE LET entityIndex == Index(entity)
             s1 == SSEnsureCapacity(s, entityIndex)
         IN IF SSContains(s1, entity)
            THEN [ss |-> s1, ret |-> FALSE]
            ELSE [ss |-> [sparse |-> [s1.sparse EXCEPT ![entityIndex + 1] = s1.size],
                          dense |-> IF Len(s1.dense) <= s1.size
                                    THEN Append(s1.dense, entity)
                                    ELSE [s1.dense EXCEPT ![s1.size + 1] = entity],
                          size |-> s1.size + 1],
                  ret |-> TRUE]

\* Remove: the set after the call and the value returned
SSRemove(s, entity) ==
    IF ~SSContains(s, entity)
    THEN [ss |-> s, ret |-> FALSE]
    ELSE LET entityIndex == Index(entity)
             denseIndex == s.sparse[entityIndex + 1]
             lastIndex == s.size - 1
             lastEntity == s.dense[lastIndex + 1]
             moved == IF denseIndex # lastIndex
                      THEN [s EXCEPT !.dense[denseIndex + 1] = lastEntity,
                                     !.sparse[Index(lastEntity) + 1] = denseIndex]
                      ELSE s
         IN [ss |-> [moved EXCEPT !.sparse[entityIndex + 1] = -1,
                                  !.size = s.size - 1],
             ret |-> TRUE]

SSSize(s) == s.size

SSEmpty(s) == s.size = 0

SSClear(s) ==
    [s EXCEPT !.size = 0, !.sparse = [i \in 1..Len(s.sparse) |-> -1]]

SSData(s) == SubSeq(s.dense, 1, s.size)

SSAt(s, index) ==
    IF index < 0 \/ index >= s.size THEN NullEntity ELSE s.dense[index + 1]

SSIndex(s, entity) ==
    IF ~SSContains(s, entity) THEN -1 ELSE s.sparse[Index(entity) + 1]

SSSwap(s, i, j) ==
    IF i < 0 \/ i >= s.size \/ j < 0 \/ j >= s.size
    THEN s
    ELSE LET entityI == s.dense[i + 1]
             entityJ == s.dense[j + 1]
             sparse1 == [s.sparse EXCEPT ![Index(entityI) + 1] = j]
         IN [s EXCEPT !.dense = [s.dense EXCEPT ![i + 1] = entityJ, ![j + 1] = entityI],
                      !.sparse = [sparse1 EXCEPT ![Index(entityJ) + 1] = i]]

\* a < b for two uint32 held as two's-complement integers
ULess(a, b) == IF (a < 0) = (b < 0) THEN a < b ELSE b < 0

\* the comparison functions handed to Sort, by name
LessNames == {"asc", "desc", "gen"}

Less(name, a, b) ==
    CASE name = "asc" -> ULess(a, b)
      [] name = "desc" -> ULess(b, a)
      [] name = "gen" -> Generation(a) < Generation(b)

\* the bubble sort of Sort, from pass i and position j on
RECURSIVE SSSortFrom(_, _, _, _)
SSSortFrom(s, less, i, j) ==
    IF i >= s.size - 1
    THEN s
    ELSE IF j >= s.size - i - 1
         THEN SSSortFrom(s, less, i + 1, 0)
         ELSE SSSortFrom(IF Less(less, s.dense[j + 2], s.dense[j + 1])
                         THEN SSSwap(s, j, j + 1) ELSE s,
                         less, i, j + 1)

SSSort(s, less) == SSSortFrom(s, less, 0, 0)

\* first loop of Respect: the entities of other that s contains, in other's order
RECURSIVE RespectPresent(_, _, _, _)
RespectPresent(s, other, i, newDense) ==
    IF i >= other.size
    THEN newDense
    ELSE RespectPresent(s, other, i + 1,
                        IF SSContains(s, other.dense[i + 1])
                        THEN Append(newDense, other.dense[i + 1])
                        ELSE newDense)

\* second loop of Respect: the entities of s not yet in newDense, in s's order
RECURSIVE RespectRemaining(_, _, _)
RespectRemaining(s, i, newDense) ==
    IF i >= s.size
    THEN newDense
    ELSE LET entity == s.dense[i + 1]
             found == \E j \in 1..Len(newDense) : newDense[j] = entity
         IN RespectRemaining(s, i + 1,
                             IF found THEN newDense ELSE Append(newDense, entity))

\* last loop of Respect: sparse[entity.Index()] = i for each entity of newDense
RECURSIVE RespectSparse(_, _, _)
RespectSparse(sparse, newDense, i) ==
    IF i >= Len(newDense)
    THEN sparse
    ELSE RespectSparse([sparse EXCEPT ![Index(newDense[i + 1]) + 1] = i],
                       newDense, i + 1)

SSRespect(s, other) ==
    IF other.size = 0
    THEN s
    ELSE LET newDense == RespectRemaining(s, 0, RespectPresent(s, other, 0, <<>>))
         IN [s EXCEPT !.dense = [k \in 1..Len(s.dense) |->
                                    IF k <= Len(newDense) THEN newDense[k]
                                    ELSE s.dense[k]],
                      !.sparse = RespectSparse(s.sparse, newDense, 0)]

(***************************************************************************)
(* ComponentPool: a sparse set of entities and the values aligned with its *)
(* dense array                                                             *)
(***************************************************************************)
NewComponentPool == [entities |-> NewSparseSet, components |-> <<>>]

CPContains(cp, entity) == SSContains(cp.entities, entity)

CPSize(cp) == SSSize(cp.entities)

CPInsert(cp, entity, component) ==
    IF SSContains(cp.entities, entity)
    THEN [cp EXCEPT !.components[SSIndex(cp.entities, entity) + 1] = component]
    ELSE LET r == SSInsert(cp.entities, entity) IN
         IF r.ret
         THEN [entities |-> r.ss,
               components |->
                   IF Len(cp.components) <= SSSize(r.ss) - 1
                   THEN Append(cp.components, component)
                   ELSE [cp.components EXCEPT ![SSSize(r.ss)] = component]]
         ELSE [cp EXCEPT !.entities = r.ss]

\* Remove that leaves the last component where it is
CPRemoveNoMove(cp, entity) ==
    IF ~SSContains(cp.entities, entity)
    THEN [cp |-> cp, ret |-> FALSE]
    ELSE LET r == SSRemove(cp.entities, entity)
         IN [cp |-> [entities |-> r.ss, components |-> cp.components], ret |-> r.ret]

\* Remove: the pool after the call and the value returned
CPRemove(cp, entity) ==
    IF ~SSContains(cp.entities, entity)
    THEN [cp |-> cp, ret |-> FALSE]
    ELSE LET index == SSIndex(cp.entities, entity)
             lastIndex == SSSize(cp.entities) - 1
             r == SSRemove(cp.entities, entity)
         IN [cp |-> [entities |-> r.ss,
                     components |->
                         IF index # lastIndex
                         THEN [cp.components EXCEPT ![index + 1] =
                                                        cp.components[lastIndex + 1]]
                         ELSE cp.components],
             ret |-> r.ret]

\* Clear that truncates the components and leaves the entities alone
CPClearComponentsOnly(cp) == [entities |-> cp.entities, components |-> <<>>]

CPClear(cp) == [entities |-> SSClear(cp.entities), components |-> <<>>]

\* Get: the value (the zero value 0 when absent) and the found flag
CPGet(cp, entity) ==
    IF ~SSContains(cp.entities, entity)
    THEN [val |-> 0, found |-> FALSE]
    ELSE [val |-> cp.components[SSIndex(cp.entities, entity) + 1], found |-> TRUE]

\* GetPtr: the slot of components the pointer addresses, -1 for nil
CPGetPtr(cp, entity) ==
    IF ~SSContains(cp.entities, entity) THEN -1 ELSE SSIndex(cp.entities, entity)

\* the comparison functions handed to ComponentPool.Sort, by name: by the
\* handle, by the component
CPLessNames == {"entity", "value"}

CPLess(name, a, compA, b, compB) ==
    CASE name = "entity" -> ULess(a, b)
      [] name = "value" -> compA < compB

\* Sort: the bubble sort of cp.entities from pass i and position j on, with
\* the comparison reading the components at the indices the sparse set gives
\* at that moment; the components stay where they are. own is the pool
\* before the call. The result tells whether an index was out of range
\* (the call panics and the pool stays as it is then) and whether every
\* comparison so far got each entity with the component own holds for it.
RECURSIVE CPSortFrom(_, _, _, _, _, _)
CPSortFrom(cp, own, less, i, j, paired) ==
    IF i >= cp.entities.size - 1
    THEN [cp |-> cp, panic |-> FALSE, paired |-> paired]
    ELSE IF j >= cp.entities.size - i - 1
         THEN CPSortFrom(cp, own, less, i + 1, 0, paired)
         ELSE LET a == cp.entities.dense[j + 2]
                  b == cp.entities.dense[j + 1]
                  indexA == SSIndex(cp.entities, a)
                  indexB == SSIndex(cp.entities, b)
              IN IF indexA < 0 \/ indexB < 0
                 THEN [cp |-> cp, panic |-> TRUE, paired |-> paired]
                 ELSE LET compA == cp.components[indexA + 1]
                          compB == cp.components[indexB + 1]
                      IN CPSortFrom(
                             IF CPLess(less, a, compA, b, compB)
                             THEN [cp EXCEPT !.entities = SSSwap(cp.entities, j, j + 1)]
                             ELSE cp,
                             own, less, i, j + 1,
                             /\ paired
                             /\ compA = CPGet(own, a).val
                             /\ compB = CPGet(own, b).val)

CPSort(cp, less) == CPSortFrom(cp, cp, less, 0, 0, TRUE)

\* first loop of ComponentPool.Respect: the components of the entities of
\* other that the pool contains, in other's order
RECURSIVE CPRespectPresent(_, _, _, _)
CPRespectPresent(cp, other, i, newComponents) ==
    IF i >= SSSize(other)
    THEN newComponents
    ELSE LET entity == SSAt(other, i) IN
         CPRespectPresent(cp, other, i + 1,
             IF SSContains(cp.entities, entity)
             THEN Append(newComponents,
                         cp.components[SSIndex(cp.entities, entity) + 1])
             ELSE newComponents)

\* second loop: the components at the positions whose entity is nowhere in
\* other, in the pool's order
RECURSIVE CPRespectRemaining(_, _, _, _)
CPRespectRemaining(cp, other, i, newComponents) ==
    IF i >= SSSize(cp.entities)
    THEN newComponents
    ELSE LET entity == SSData(cp.entities)[i + 1]
             found == \E j \in 0..(SSSize(other) - 1) : SSAt(other, j) = entity
         IN CPRespectRemaining(cp, other, i + 1,
                IF found THEN newComponents
                ELSE Append(newComponents, cp.components[i + 1]))

CPRespect(cp, other) ==
    IF SSSize(other) = 0
    THEN cp
    ELSE LET newComponents ==
                 CPRespectRemaining(cp, other, 0, CPRespectPresent(cp, other, 0, <<>>))
         IN [entities |-> SSRespect(cp.entities, other),
             components |-> [k \in 1..Len(cp.components) |->
                                IF k <= Len(newComponents) THEN newComponents[k]
                                ELSE cp.components[k]]]

\* ForEach from position i on, over the n entities Data() held when the loop
\* began: fn gets the entity now at position i of the dense array and the
\* address of components[i]; at the positions of removeAt fn removes the
\* entity it was given. visits keeps, per call of fn, the entity, the slot
\* addressed, and the slot GetPtr gives for the entity at that moment.
RECURSIVE CPForEachFrom(_, _, _, _, _)
CPForEachFrom(cp, n, i, removeAt, visits) ==
    IF i >= n
    THEN [cp |-> cp, visits |-> visits]
    ELSE LET entity == cp.entities.dense[i + 1]
             visit == [e |-> entity, ptr |-> i, live |-> CPGetPtr(cp, entity)]
         IN CPForEachFrom(IF i \in removeAt THEN CPRemove(cp, entity).cp ELSE cp,
                          n, i + 1, removeAt, Append(visits, visit))

CPForEach(cp, removeAt) == CPForEachFrom(cp, SSSize(cp.entities), 0, removeAt, <<>>)

(***************************************************************************)
(* ComponentRegistry                                                       *)
(***************************************************************************)
ComponentTypes == {"Position", "Velocity"}

NewComponentRegistry == [nextID |-> 0, typeToID |-> <<>>, storages |-> <<>>]

\* Register without the test for a type already registered
RegisterAlwaysNew(cr, T) ==
    [cr |-> [nextID |-> cr.nextID + 1,
             typeToID |-> (T :> cr.nextID) @@ cr.typeToID,
             storages |-> (cr.nextID :> NewComponentPool) @@ cr.storages],
     id |-> cr.nextID]

\* Register: the registry after the call and the id returned
Register(cr, T) ==
    IF T \in DOMAIN cr.typeToID
    THEN [cr |-> cr, id |-> cr.typeToID[T]]
    ELSE [cr |-> [nextID |-> cr.nextID + 1,
                  typeToID |-> cr.typeToID @@ (T :> cr.nextID),
                  storages |-> cr.storages @@ (cr.nextID :> NewComponentPool)],
          id |-> cr.nextID]

GetComponentID(cr, T) ==
    IF T \in DOMAIN cr.typeToID
    THEN [id |-> cr.typeToID[T], exists |-> TRUE]
    ELSE [id |-> 0, exists |-> FALSE]

\* GetStorage: whether the type has a pool, and its id in storages
GetStorage(cr, T) ==
    LET c == GetComponentID(cr, T) IN
    IF ~c.exists THEN [id |-> 0, exists |-> FALSE]
    ELSE IF c.id \notin DOMAIN cr.storages THEN [id |-> 0, exists |-> FALSE]
    ELSE [id |-> c.id, exists |-> TRUE]

GetStorageByID(cr, id) ==
    IF id \in DOMAIN cr.storages
    THEN [id |-> id, exists |-> TRUE] ELSE [id |-> 0, exists |-> FALSE]

RemoveAllComponents(cr, entity) ==
    [cr EXCEPT !.storages =
        [id \in DOMAIN cr.storages |-> CPRemove(cr.storages[id], entity).cp]]

(***************************************************************************)
(* World: the facade over the entity manager and the registry              *)
(***************************************************************************)
NewWorld == [entityManager |-> NewEntityManager, componentRegistry |-> NewComponentRegistry]

\* the world held in the variables
W == [entityManager |-> EM, componentRegistry |-> registry]

\* DestroyEntity without the removal of the entity's components
WorldDestroyEntityNoCascade(w, entity) ==
    IF ~EMIsValid(w.entityManager, entity)
    THEN [w |-> w, ret |-> FALSE]
    ELSE LET r == EMDestroy(w.entityManager, entity)
         IN [w |-> [w EXCEPT !.entityManager = r.em], ret |-> r.ret]

\* DestroyEntity: the world after the call and the value returned
WorldDestroyEntity(w, entity) ==
    IF ~EMIsValid(w.entityManager, entity)
    THEN [w |-> w, ret |-> FALSE]
    ELSE LET cr == RemoveAllComponents(w.componentRegistry, entity)
             r == EMDestroy(w.entityManager, entity)
         IN [w |-> [entityManager |-> r.em, componentRegistry |-> cr],
             ret |-> r.ret]

WorldIsValidEntity(w, entity) == EMIsValid(w.entityManager, entity)

WorldAddComponent(w, T, entity, component) ==
    IF ~EMIsValid(w.entityManager, entity)
    THEN w
    ELSE LET cr == Register(w.componentRegistry, T).cr
             st == GetStorage(cr, T)
         IN IF st.exists
            THEN [w EXCEPT !.componentRegistry =
                     [cr EXCEPT !.storages[st.id] = CPInsert(@, entity, component)]]
            ELSE [w EXCEPT !.componentRegistry = cr]

\* RemoveComponent: the world after the call and the value returned
WorldRemoveComponent(w, T, entity) ==
    IF ~EMIsValid(w.entityManager, entity)
    THEN [w |-> w, ret |-> FALSE]
    ELSE LET st == GetStorage(w.componentRegistry, T) IN
         IF st.exists
         THEN LET r == CPRemove(w.componentRegistry.storages[st.id], entity)
              IN [w |-> [w EXCEPT !.componentRegistry.storages[st.id] = r.cp],
                  ret |-> r.ret]
         ELSE [w |-> w, ret |-> FALSE]

WorldGetComponent(w, T, entity) ==
    IF ~EMIsValid(w.entityManager, entity)
    THEN [val |-> 0, found |-> FALSE]
    ELSE LET st == GetStorage(w.componentRegistry, T) IN
         IF st.exists
         THEN CPGet(w.componentRegistry.storages[st.id], entity)
         ELSE [val |-> 0, found |-> FALSE]

\* GetComponentPtr: the slot the pointer addresses, -1 for nil
WorldGetComponentPtr(w, T, entity) ==
    IF ~EMIsValid(w.entityManager, entity)
    THEN -1
    ELSE LET st == GetStorage(w.componentRegistry, T) IN
         IF st.exists
         THEN CPGetPtr(w.componentRegistry.storages[st.id], entity)
         ELSE -1

WorldHasComponent(w, T, entity) ==
    /\ EMIsValid(w.entityManager, entity)
    /\ LET st == GetStorage(w.componentRegistry, T) IN
        /\ st.exists
        /\ CPContains(w.componentRegistry.storages[st.id], entity)

\* NewSystemManager: no system, nothing enabled
NewSystemManager == [systems |-> <<>>, enabled |-> <<>>]

\* SystemManager.IsEnabled: the system has an entry in the map and it is true
SMIsEnabled(sm, system) == system \in DOMAIN sm.enabled /\ sm.enabled[system]

\* SystemManager.Clear
SMClear(sm) == NewSystemManager

\* the sum of Size() over the pools with ids below n
RECURSIVE SumSizes(_, _)
SumSizes(cr, n) ==
    IF n = 0 THEN 0
    ELSE SumSizes(cr, n - 1)
             + (IF (n - 1) \in DOMAIN cr.storages THEN CPSize(cr.storages[n - 1]) ELSE 0)

\* World.Stats
WorldStats(w, sm) ==
    [EntityCount |-> EMSize(w.entityManager),
     ComponentTypes |-> Cardinality(DOMAIN w.componentRegistry.typeToID),
     TotalComponents |-> SumSizes(w.componentRegistry, w.componentRegistry.nextID),
     SystemCount |-> Len(sm.systems)]

WorldClear(w) ==
    [entityManager |-> EMClear(w.entityManager),
     componentRegistry |-> NewComponentRegistry]

(***************************************************************************)
(* QueryResult, Query and ViewBuilder                                      *)
(***************************************************************************)
\* a QueryResult: its entities slice. shared is the id of the pool whose
\* dense array backs the slice, -1 when the slice has an array of its own
NewQueryResult(ents, shared) == [entities |-> ents, shared |-> shared]

\* Entities(): the slice as read while the registry is cr
QREntities(cr, qr) ==
    IF qr.shared = -1 THEN qr.entities
    ELSE SubSeq(cr.storages[qr.shared].entities.dense, 1, Len(qr.entities))

QRSize(qr) == Len(qr.entities)

NewQuery == [include |-> <<>>, exclude |-> <<>>, includeAny |-> <<>>, excludeAny |-> <<>>]

\* With, Without, WithAny, WithoutAny: the registry and the query after the call
With(cr, q, T) ==
    LET r == Register(cr, T) IN [cr |-> r.cr, q |-> [q EXCEPT !.include = Append(@, r.id)]]

Without(cr, q, T) ==
    LET r == Register(cr, T) IN [cr |-> r.cr, q |-> [q EXCEPT !.exclude = Append(@, r.id)]]

WithAny(cr, q, T) ==
    LET r == Register(cr, T) IN [cr |-> r.cr, q |-> [q EXCEPT !.includeAny = Append(@, r.id)]]

WithoutAny(cr, q, T) ==
    LET r == Register(cr, T) IN [cr |-> r.cr, q |-> [q EXCEPT !.excludeAny = Append(@, r.id)]]

\* the ViewBuilder's query after Include, Exclude, IncludeAny, ExcludeAny
Include(q, componentIDs) == [q EXCEPT !.include = @ \o componentIDs]

Exclude(q, componentIDs) == [q EXCEPT !.exclude = @ \o componentIDs]

IncludeAny(q, componentIDs) == [q EXCEPT !.includeAny = @ \o componentIDs]

ExcludeAny(q, componentIDs) == [q EXCEPT !.excludeAny = @ \o componentIDs]

\* matchesEntity that passes over an include id without a pool, as the
\* exclude loop does
matchesEntityIncludeLenient(cr, q, entity) ==
    /\ \A k \in 1..Len(q.include) :
          GetStorageByID(cr, q.include[k]).exists =>
              CPContains(cr.storages[q.include[k]], entity)
    /\ \A k \in 1..Len(q.exclude) :
          GetStorageByID(cr, q.exclude[k]).exists =>
              ~CPContains(cr.storages[q.exclude[k]], entity)
    /\ Len(q.includeAny) > 0 =>
          \E k \in 1..Len(q.includeAny) :
              /\ GetStorageByID(cr, q.includeAny[k]).exists
              /\ CPContains(cr.storages[q.includeAny[k]], entity)
    /\ \A k \in 1..Len(q.excludeAny) :
          GetStorageByID(cr, q.excludeAny[k]).exists =>
              ~CPContains(cr.storages[q.excludeAny[k]], entity)

\* matchesEntity that returns false on an exclude id without a pool, as the
\* include loop does
matchesEntityExcludeStrict(cr, q, entity) ==
    /\ \A k \in 1..Len(q.include) :
          /\ GetStorageByID(cr, q.include[k]).exists
          /\ CPContains(cr.storages[q.include[k]], entity)
    /\ \A k \in 1..Len(q.exclude) :
          /\ GetStorageByID(cr, q.exclude[k]).exists
          /\ ~CPContains(cr.storages[q.exclude[k]], entity)
    /\ Len(q.includeAny) > 0 =>
          \E k \in 1..Len(q.includeAny) :
              /\ GetStorageByID(cr, q.includeAny[k]).exists
              /\ CPContains(cr.storages[q.includeAny[k]], entity)
    /\ \A k \in 1..Len(q.excludeAny) :
          GetStorageByID(cr, q.excludeAny[k]).exists =>
              ~CPContains(cr.storages[q.excludeAny[k]], entity)

\* matchesEntity without the check of includeAny
matchesEntityNoAny(cr, q, entity) ==
    /\ \A k \in 1..Len(q.include) :
          /\ GetStorageByID(cr, q.include[k]).exists
          /\ CPContains(cr.storages[q.include[k]], entity)
    /\ \A k \in 1..Len(q.exclude) :
          GetStorageByID(cr, q.exclude[k]).exists =>
              ~CPContains(cr.storages[q.exclude[k]], entity)
    /\ \A k \in 1..Len(q.excludeAny) :
          GetStorageByID(cr, q.excludeAny[k]).exists =>
              ~CPContains(cr.storages[q.excludeAny[k]], entity)

matchesEntity(cr, q, entity) ==
    /\ \A k \in 1..Len(q.include) :
          /\ GetStorageByID(cr, q.include[k]).exists
          /\ CPContains(cr.storages[q.include[k]], entity)
    /\ \A k \in 1..Len(q.exclude) :
          GetStorageByID(cr, q.exclude[k]).exists =>
              ~CPContains(cr.storages[q.exclude[k]], entity)
    /\ Len(q.includeAny) > 0 =>
          \E k \in 1..Len(q.includeAny) :
              /\ GetStorageByID(cr, q.includeAny[k]).exists
              /\ CPContains(cr.storages[q.includeAny[k]], entity)
    /\ \A k \in 1..Len(q.excludeAny) :
          GetStorageByID(cr, q.excludeAny[k]).exists =>
              ~CPContains(cr.storages[q.excludeAny[k]], entity)

MaxInt == 2147483647

\* the loop of Build over include with <= for <: the last of the smallest
\* storages wins
RECURSIVE SmallestStorageLastWins(_, _, _, _, _)
SmallestStorageLastWins(cr, include, k, smallestSize, smallestStorage) ==
    IF k > Len(include) THEN smallestStorage
    ELSE LET st == GetStorageByID(cr, include[k]) IN
         IF st.exists /\ CPSize(cr.storages[st.id]) <= smallestSize
         THEN SmallestStorageLastWins(cr, include, k + 1, CPSize(cr.storages[st.id]), st.id)
         ELSE SmallestStorageLastWins(cr, include, k + 1, smallestSize, smallestStorage)

\* the loop of Build over include from position k: the id of the smallest
\* storage found, -1 for nil
RECURSIVE SmallestStorage(_, _, _, _, _)
SmallestStorage(cr, include, k, smallestSize, smallestStorage) ==
    IF k > Len(include) THEN smallestStorage
    ELSE LET st == GetStorageByID(cr, include[k]) IN
         IF st.exists /\ CPSize(cr.storages[st.id]) < smallestSize
         THEN SmallestStorage(cr, include, k + 1, CPSize(cr.storages[st.id]), st.id)
         ELSE SmallestStorage(cr, include, k + 1, smallestSize, smallestStorage)

\* entitySet filled from the first includeAny id only
EntitySetFirstOnly(cr, includeAny) ==
    IF GetStorageByID(cr, includeAny[1]).exists
    THEN {SSData(cr.storages[includeAny[1]].entities)[i] :
              i \in 1..CPSize(cr.storages[includeAny[1]])}
    ELSE {}

\* the keys of entitySet: the entities of the registered includeAny pools
EntitySet(cr, includeAny) ==
    UNION {{SSData(cr.storages[includeAny[k]].entities)[i] :
                i \in 1..CPSize(cr.storages[includeAny[k]])} :
           k \in {j \in 1..Len(includeAny) : GetStorageByID(cr, includeAny[j]).exists}}

\* the orders in which ranging over a map of these keys can deliver them
MapOrders(keys) ==
    {f \in [1..Cardinality(keys) -> keys] :
        \A a, b \in 1..Cardinality(keys) : a # b => f[a] # f[b]}

\* the candidates that match, in the order of the candidates
FilterCandidates(cr, q, candidates) ==
    SelectSeq(candidates, LAMBDA entity : matchesEntity(cr, q, entity))

\* Build that hands out the candidates slice itself when no candidate is
\* filtered out
QueryBuildNoCopy(cr, q) ==
    IF Len(q.include) = 0 /\ Len(q.includeAny) = 0
    THEN {NewQueryResult(<<>>, -1)}
    ELSE IF Len(q.include) > 0
    THEN LET smallestStorage == SmallestStorage(cr, q.include, 1, MaxInt, -1) IN
         IF smallestStorage # -1
         THEN LET candidates == SSData(cr.storages[smallestStorage].entities)
                  kept == FilterCandidates(cr, q, candidates)
              IN {NewQueryResult(kept, IF kept = candidates THEN smallestStorage ELSE -1)}
         ELSE {NewQueryResult(<<>>, -1)}
    ELSE {NewQueryResult(FilterCandidates(cr, q, candidates), -1) :
             candidates \in MapOrders(EntitySet(cr, q.includeAny))}

\* Build that takes a query without include and includeAny to ask for every
\* entity of every pool
QueryBuildMatchAll(cr, q) ==
    IF Len(q.include) = 0 /\ Len(q.includeAny) = 0
    THEN {NewQueryResult(FilterCandidates(cr, q, candidates), -1) :
             candidates \in MapOrders(UNION {{SSData(cr.storages[id].entities)[i] :
                                                 i \in 1..CPSize(cr.storages[id])} :
                                             id \in DOMAIN cr.storages})}
    ELSE IF Len(q.include) > 0
    THEN LET smallestStorage == SmallestStorage(cr, q.include, 1, MaxInt, -1) IN
         IF smallestStorage # -1
         THEN LET candidates == SSData(cr.storages[smallestStorage].entities)
              IN {NewQueryResult(FilterCandidates(cr, q, candidates), -1)}
         ELSE {NewQueryResult(<<>>, -1)}
    ELSE {NewQueryResult(FilterCandidates(cr, q, candidates), -1) :
             candidates \in MapOrders(EntitySet(cr, q.includeAny))}

\* Build that collects the candidates of the include path in a map as well
QueryBuildShuffled(cr, q) ==
    IF Len(q.include) = 0 /\ Len(q.includeAny) = 0
    THEN {NewQueryResult(<<>>, -1)}
    ELSE IF Len(q.include) > 0
    THEN LET smallestStorage == SmallestStorage(cr, q.include, 1, MaxInt, -1) IN
         IF smallestStorage # -1
         THEN {NewQueryResult(FilterCandidates(cr, q, candidates), -1) :
                  candidates \in MapOrders({SSData(cr.storages[smallestStorage].entities)[i] :
                                               i \in 1..CPSize(cr.storages[smallestStorage])})}
         ELSE {NewQueryResult(<<>>, -1)}
    ELSE {NewQueryResult(FilterCandidates(cr, q, candidates), -1) :
             candidates \in MapOrders(EntitySet(cr, q.includeAny))}

\* Build: the results the call can return, one for each order in which the
\* map of the includeAny path can be ranged over
QueryBuild(cr, q) ==
    IF Len(q.include) = 0 /\ Len(q.includeAny) = 0
    THEN {NewQueryResult(<<>>, -1)}
    ELSE IF Len(q.include) > 0
    THEN LET smallestStorage == SmallestStorage(cr, q.include, 1, MaxInt, -1) IN
         IF smallestStorage # -1
         THEN LET candidates == SSData(cr.storages[smallestStorage].entities)
              IN {NewQueryResult(FilterCandidates(cr, q, candidates), -1)}
         ELSE {NewQueryResult(<<>>, -1)}
    ELSE {NewQueryResult(FilterCandidates(cr, q, candidates), -1) :
             candidates \in MapOrders(EntitySet(cr, q.includeAny))}

(***************************************************************************)
(* Iterator1, Iterator2 and Iterator3                                      *)
(***************************************************************************)
\* the elements of a sequence
Range(seq) == {seq[i] : i \in 1..Len(seq)}

\* no iterator made yet
NoIterator == [types |-> <<>>, pools |-> <<>>, pos |-> 0]

\* the query of NewIterator after With for the types from position k on
RECURSIVE WithAll(_, _, _, _)
WithAll(cr, q, types, k) ==
    IF k > Len(types) THEN [cr |-> cr, q |-> q]
    ELSE LET r == With(cr, q, types[k]) IN WithAll(r.cr, r.q, types, k + 1)

\* NewIterator1, 2, 3 for the types given: the pools GetStorage returns
\* before the query registers the types (-1 for nil), then the registry and
\* the query that is built
\* NewIterator whose query names only the types registered before the call
NewIteratorRegisteredOnly(cr, types) ==
    LET r == WithAll(cr, NewQuery,
                     SelectSeq(types, LAMBDA T : GetStorage(cr, T).exists), 1) IN
    [pools |-> [k \in 1..Len(types) |->
                   IF GetStorage(cr, types[k]).exists
                   THEN GetStorage(cr, types[k]).id ELSE -1],
     cr |-> r.cr,
     q |-> r.q]

NewIterator(cr, types) ==
    LET r == WithAll(cr, NewQuery, types, 1) IN
    [pools |-> [k \in 1..Len(types) |->
                   IF GetStorage(cr, types[k]).exists
                   THEN GetStorage(cr, types[k]).id ELSE -1],
     cr |-> r.cr,
     q |-> r.q]

\* comp1, comp2, comp3 of ForEach for entity: the slots GetPtr returns, -1
\* for nil, and -2 where the pool itself is nil and GetPtr dereferences it
GetPtrs(cr, pools, entity) ==
    [k \in 1..Len(pools) |->
        IF pools[k] = -1 THEN -2 ELSE CPGetPtr(cr.storages[pools[k]], entity)]

\* ForEach that looks at comp1 only
Comp1NotNil(ptrs) == ptrs[1] # -1

\* the test of ForEach: comp1 != nil && comp2 != nil && comp3 != nil
AllNotNil(ptrs) == \A k \in 1..Len(ptrs) : ptrs[k] # -1

(***************************************************************************)
(* The calls made on the entity manager                                    *)
(***************************************************************************)
\* the record of a call: its name, the handle passed (or returned by Create),
\* the boolean returned, whether the handle was live before the call, and a
\* bit that alternates so that every call is a step
OpRec(name, e, ret) ==
    [name |-> name, e |-> e, ret |-> ret, type |-> "", val |-> 0,
     reused |-> FALSE, wasLive |-> e \in live, tick |-> 1 - op.tick]

NoOp == [name |-> "none", e |-> NullEntity, ret |-> FALSE, type |-> "", val |-> 0,
         reused |-> FALSE, wasLive |-> FALSE, tick |-> 0]

\* the record of a call on the World: the bit does not alternate there, a call
\* that repeats the last one and changes nothing is no step
WorldOpRec(name, e, ret) == [OpRec(name, e, ret) EXCEPT !.tick = 0]

\* the step is a call of the operation called name
Called(name) == vars' # vars /\ op'.name = name

\* the handles passed to Destroy: every index and generation within the
\* bounds, and the null handle
Handles == {makeEntity(i, g) : i \in 0..(MaxEntities - 1), g \in 0..MaxGen}
              \cup {NullEntity}

\* the sequence of indices without the index given
Without1(seq, index) == SelectSeq(seq, LAMBDA x : x # index)

\* the ghost slotGen after Create returned entity
IssueGen(sg, entity) ==
    IF Index(entity) < Len(sg)
    THEN [sg EXCEPT ![Index(entity) + 1] = Generation(entity)]
    ELSE Append(sg, Generation(entity))

\* Create on a manager of at most maxSlots slots; rec is the record of the
\* call, to be completed with the entity returned
CreateWithin(maxSlots, rec) ==
    /\ freeHead >= 0 \/ Len(entities) < maxSlots
    /\ LET r == EMCreate(EM) IN
        /\ entities' = r.em.entities
        /\ freeHead' = r.em.freeHead
        /\ op' = [rec EXCEPT !.e = r.entity, !.reused = r.reused,
                             !.wasLive = r.entity \in live]
        /\ live' = live \cup {r.entity}
        /\ destroyed' = destroyed
        /\ slotGen' = IssueGen(slotGen, r.entity)
        /\ issued' = issued \cup {r.entity}
        /\ freed' = Without1(freed, Index(r.entity))

Create ==
    /\ CreateWithin(MaxEntities, OpRec("Create", NullEntity, TRUE))
    /\ UNCHANGED <<worldVars, ssVars, poolVars, queryVars, iterVars, sysVars>>

Destroy(e) ==
    /\ LET r == EMDestroy(EM, e) IN
        /\ entities' = r.em.entities
        /\ freeHead' = r.em.freeHead
        /\ op' = OpRec("Destroy", e, r.ret)
        /\ live' = IF r.ret THEN live \ {e} ELSE live
        /\ freed' = IF r.ret THEN Append(Without1(freed, Index(e)), Index(e)) ELSE freed
    /\ UNCHANGED <<destroyed, slotGen, issued, worldVars, ssVars, poolVars, queryVars, iterVars, sysVars>>

\* Clear: the record keeps the handles issued before the call
Clear ==
    /\ entities' = EMClear(EM).entities
    /\ freeHead' = EMClear(EM).freeHead
    /\ op' = OpRec("Clear", NullEntity, FALSE) @@ [issued |-> issued]
    /\ live' = {}
    /\ destroyed' = {}
    /\ slotGen' = <<>>
    /\ issued' = {}
    /\ freed' = <<>>
    /\ UNCHANGED <<worldVars, ssVars, poolVars, queryVars, iterVars, sysVars>>

Init ==
    /\ entities = NewEntityManager.entities
    /\ freeHead = NewEntityManager.freeHead
    /\ op = NoOp
    /\ live = {}
    /\ destroyed = {}
    /\ slotGen = <<>>
    /\ issued = {}
    /\ freed = <<>>
    /\ registry = NewComponentRegistry
    /\ ss = NewSparseSet
    /\ members = {}
    /\ pool = NewComponentPool
    /\ lastVal = [e \in {} |-> 0]
    /\ query = NewQuery
    /\ result = NewQueryResult(<<>>, -1)
    /\ iter = NoIterator
    /\ visited = <<>>
    /\ strict = TRUE
    /\ systemManager = NewSystemManager

Next ==
    \/ Create
    \/ \E e \in Handles : Destroy(e)
    \/ Clear

Spec == Init /\ [][Next]_vars

\* the calls of a client that passes to Destroy only handles that Create has
\* returned, any number of times each
NextIssued ==
    \/ Create
    \/ \E e \in issued : Destroy(e)

SpecIssued == Init /\ [][NextIssued]_vars

(***************************************************************************)
(* The calls made on the sparse set                                        *)
(***************************************************************************)
\* the handles given to the sparse set: generations 0 and 1 of index 0, then
\* of index 1, and so on
SSHandles == {makeEntity(k \div 2, k % 2) : k \in 0..(MaxSSHandles - 1)}

\* the sparse set that Insert builds from a sequence of handles
RECURSIVE SSFromSeq(_)
SSFromSeq(seq) ==
    IF seq = <<>> THEN NewSparseSet
    ELSE SSInsert(SSFromSeq(SubSeq(seq, 1, Len(seq) - 1)), seq[Len(seq)]).ss

\* the sets handed to Respect: built by inserting handles of distinct indices
OtherSets ==
    {SSFromSeq(seq) : seq \in
        {q \in UNION {[1..n -> SSHandles] : n \in 0..MaxOther} :
            \A a, b \in 1..Len(q) : a # b => Index(q[a]) # Index(q[b])}}

SSInsertCall(e) ==
    /\ LET r == SSInsert(ss, e) IN
        /\ r.ss.size <= MaxSSSize
        /\ ss' = r.ss
        /\ op' = OpRec("SSInsert", e, r.ret)
        /\ members' = IF r.ret THEN members \cup {e} ELSE members
    /\ UNCHANGED <<emVars, worldVars, poolVars, queryVars, iterVars, sysVars>>

SSRemoveCall(e) ==
    /\ LET r == SSRemove(ss, e) IN
        /\ ss' = r.ss
        /\ op' = OpRec("SSRemove", e, r.ret)
        /\ members' = IF r.ret THEN members \ {e} ELSE members
    /\ UNCHANGED <<emVars, worldVars, poolVars, queryVars, iterVars, sysVars>>

SSClearCall ==
    /\ ss' = SSClear(ss)
    /\ op' = OpRec("SSClear", NullEntity, FALSE)
    /\ members' = {}
    /\ UNCHANGED <<emVars, worldVars, poolVars, queryVars, iterVars, sysVars>>

SSSwapCall(i, j) ==
    /\ ss' = SSSwap(ss, i, j)
    /\ op' = OpRec("SSSwap", NullEntity, FALSE)
    /\ UNCHANGED <<members, emVars, worldVars, poolVars, queryVars, iterVars, sysVars>>

SSSortCall(less) ==
    /\ ss' = SSSort(ss, less)
    /\ op' = [OpRec("SSSort", NullEntity, FALSE) EXCEPT !.type = less]
    /\ UNCHANGED <<members, emVars, worldVars, poolVars, queryVars, iterVars, sysVars>>

SSRespectCall(other) ==
    /\ ss' = SSRespect(ss, other)
    /\ op' = OpRec("SSRespect", NullEntity, FALSE)
    /\ UNCHANGED <<members, emVars, worldVars, poolVars, queryVars, iterVars, sysVars>>

NextSS ==
    \/ \E e \in SSHandles \cup {NullEntity} : SSInsertCall(e)
    \/ \E e \in SSHandles \cup {NullEntity} : SSRemoveCall(e)
    \/ SSClearCall
    \/ \E i, j \in -1..MaxSSSize : SSSwapCall(i, j)
    \/ \E less \in LessNames : SSSortCall(less)
    \/ \E other \in OtherSets : SSRespectCall(other)

SpecSS == Init /\ [][NextSS]_vars


(***************************************************************************)
(* The calls made on the component pool                                    *)
(***************************************************************************)
\* the handles given to the pool: generations 0 and 1 of index 0, then of
\* index 1, and so on
PoolHandles == {makeEntity(k \div 2, k % 2) : k \in 0..(MaxPoolHandles - 1)}

\* the component values inserted
PoolValues == {1, 2}

CPInsertCall(e, v) ==
    /\ LET r == CPInsert(pool, e, v) IN
        /\ CPSize(r) <= MaxPoolSize
        /\ pool' = r
        /\ op' = [OpRec("CPInsert", e, FALSE) EXCEPT !.val = v]
        /\ lastVal' = IF e = NullEntity THEN lastVal
                      ELSE [x \in DOMAIN lastVal \cup {e} |->
                               IF x = e THEN v ELSE lastVal[x]]
    /\ UNCHANGED <<emVars, worldVars, ssVars, queryVars, iterVars, sysVars>>

CPRemoveCall(e) ==
    /\ LET r == CPRemove(pool, e) IN
        /\ pool' = r.cp
        /\ op' = OpRec("CPRemove", e, r.ret)
    /\ UNCHANGED <<lastVal, emVars, worldVars, ssVars, queryVars, iterVars, sysVars>>

CPClearCall ==
    /\ pool' = CPClear(pool)
    /\ op' = OpRec("CPClear", NullEntity, FALSE)
    /\ UNCHANGED <<lastVal, emVars, worldVars, ssVars, queryVars, iterVars, sysVars>>

\* the sets handed to ComponentPool.Respect: built by inserting at most
\* MaxPoolOther of the pool's handles, of distinct indices
PoolOthers ==
    {SSFromSeq(seq) : seq \in
        {q \in UNION {[1..n -> PoolHandles] : n \in 0..MaxPoolOther} :
            \A a, b \in 1..Len(q) : a # b => Index(q[a]) # Index(q[b])}}

\* Sort(less): the record keeps the name of less, whether the call panicked
\* and whether every comparison got each entity with its own component
CPSortCall(less) ==
    /\ LET r == CPSort(pool, less) IN
        /\ pool' = r.cp
        /\ op' = [OpRec("CPSort", NullEntity, FALSE) EXCEPT !.type = less]
                     @@ [panic |-> r.panic, paired |-> r.paired]
    /\ UNCHANGED <<lastVal, emVars, worldVars, ssVars, queryVars, iterVars, sysVars>>

\* Respect(other): the record keeps other
CPRespectCall(other) ==
    /\ pool' = CPRespect(pool, other)
    /\ op' = OpRec("CPRespect", NullEntity, FALSE) @@ [other |-> other]
    /\ UNCHANGED <<lastVal, emVars, worldVars, ssVars, queryVars, iterVars, sysVars>>

\* ForEach(fn) with an fn that removes the entity it is given at the
\* positions of removeAt and does nothing else: the record keeps the entities
\* of the pool before the call and the calls of fn
CPForEachCall(removeAt) ==
    /\ LET r == CPForEach(pool, removeAt) IN
        /\ pool' = r.cp
        /\ op' = OpRec("CPForEach", NullEntity, FALSE)
                     @@ [start |-> SSData(pool.entities), visits |-> r.visits]
    /\ UNCHANGED <<lastVal, emVars, worldVars, ssVars, queryVars, iterVars, sysVars>>

NextPool ==
    \/ \E removeAt \in SUBSET (0..(MaxPoolSize - 1)) : CPForEachCall(removeAt)
    \/ \E e \in PoolHandles \cup {NullEntity}, v \in PoolValues : CPInsertCall(e, v)
    \/ \E e \in PoolHandles \cup {NullEntity} : CPRemoveCall(e)
    \/ CPClearCall
    \/ \E less \in CPLessNames : CPSortCall(less)
    \/ \E other \in PoolOthers : CPRespectCall(other)

SpecPool == Init /\ [][NextPool]_vars

(***************************************************************************)
(* The calls made on the World                                             *)
(***************************************************************************)
\* the handles passed to the World: those the World issues (every index,
\* generation 0) and the null handle
WorldHandles == {makeEntity(i, 0) : i \in 0..(MaxWorldEntities - 1)} \cup {NullEntity}

\* the component values passed to AddComponent
Values == {1}

\* the number of pools that hold the entity
PoolsHolding(cr, e) ==
    Cardinality({id \in DOMAIN cr.storages : CPContains(cr.storages[id], e)})

\* the variables take the entity manager and the registry of world w
SetWorld(w) ==
    /\ entities' = w.entityManager.entities
    /\ freeHead' = w.entityManager.freeHead
    /\ registry' = w.componentRegistry

CreateEntity ==
    /\ CreateWithin(MaxWorldEntities, WorldOpRec("CreateEntity", NullEntity, TRUE))
    /\ UNCHANGED <<worldVars, ssVars, poolVars, queryVars, iterVars, sysVars>>

\* the record of DestroyEntity keeps in val the number of pools that held
\* the entity before the call
DestroyEntity(e) ==
    /\ LET r == WorldDestroyEntity(W, e) IN
        /\ SetWorld(r.w)
        /\ op' = [WorldOpRec("DestroyEntity", e, r.ret)
                     EXCEPT !.val = PoolsHolding(registry, e)]
        /\ live' = IF r.ret THEN live \ {e} ELSE live
        /\ destroyed' = IF r.ret THEN destroyed \cup {e} ELSE destroyed
        /\ freed' = IF r.ret THEN Append(Without1(freed, Index(e)), Index(e)) ELSE freed
    /\ UNCHANGED <<slotGen, issued, ssVars, poolVars, queryVars, iterVars, sysVars>>

AddComponent(T, e, v) ==
    /\ SetWorld(WorldAddComponent(W, T, e, v))
    /\ op' = [WorldOpRec("AddComponent", e, FALSE) EXCEPT !.type = T, !.val = v]
    /\ UNCHANGED <<live, destroyed, slotGen, issued, freed, ssVars, poolVars, queryVars, iterVars, sysVars>>

RemoveComponent(T, e) ==
    /\ LET r == WorldRemoveComponent(W, T, e) IN
        /\ SetWorld(r.w)
        /\ op' = [WorldOpRec("RemoveComponent", e, r.ret) EXCEPT !.type = T]
    /\ UNCHANGED <<live, destroyed, slotGen, issued, freed, ssVars, poolVars, queryVars, iterVars, sysVars>>

\* the record of GetComponent keeps the found flag in ret, the value in val
GetComponent(T, e) ==
    /\ LET r == WorldGetComponent(W, T, e) IN
        op' = [WorldOpRec("GetComponent", e, r.found) EXCEPT !.type = T, !.val = r.val]
    /\ UNCHANGED <<emVars, worldVars, ssVars, poolVars, queryVars, iterVars, sysVars>>

\* the record of GetComponentPtr keeps in ret whether the pointer is not nil
GetComponentPtr(T, e) ==
    /\ LET ptr == WorldGetComponentPtr(W, T, e) IN
        op' = [WorldOpRec("GetComponentPtr", e, ptr # -1) EXCEPT !.type = T, !.val = ptr]
    /\ UNCHANGED <<emVars, worldVars, ssVars, poolVars, queryVars, iterVars, sysVars>>

HasComponent(T, e) ==
    /\ op' = [WorldOpRec("HasComponent", e, WorldHasComponent(W, T, e)) EXCEPT !.type = T]
    /\ UNCHANGED <<emVars, worldVars, ssVars, poolVars, queryVars, iterVars, sysVars>>

ClearWorld ==
    /\ SetWorld(WorldClear(W))
    /\ op' = WorldOpRec("ClearWorld", NullEntity, FALSE)
    /\ live' = {}
    /\ destroyed' = {}
    /\ slotGen' = <<>>
    /\ issued' = {}
    /\ freed' = <<>>
    /\ systemManager' = SMClear(systemManager)
    /\ UNCHANGED <<ssVars, poolVars, queryVars, iterVars>>

NextWorld ==
    \/ CreateEntity
    \/ \E e \in WorldHandles : DestroyEntity(e)
    \/ \E T \in ComponentTypes, e \in WorldHandles, v \in Values : AddComponent(T, e, v)
    \/ \E T \in ComponentTypes, e \in WorldHandles : RemoveComponent(T, e)
    \/ \E T \in ComponentTypes, e \in WorldHandles : GetComponent(T, e)
    \/ \E T \in ComponentTypes, e \in WorldHandles : GetComponentPtr(T, e)
    \/ \E T \in ComponentTypes, e \in WorldHandles : HasComponent(T, e)
    \/ ClearWorld

SpecWorld == Init /\ [][NextWorld]_vars

(***************************************************************************)
(* World.Stats after calls that create and destroy entities and that add   *)
(* and remove components                                                   *)
(***************************************************************************)
Stats ==
    /\ op' = WorldOpRec("Stats", NullEntity, FALSE) @@
                [stats |-> WorldStats(W, systemManager)]
    /\ UNCHANGED <<emVars, worldVars, ssVars, poolVars, queryVars, iterVars, sysVars>>

NextStats ==
    \/ CreateEntity
    \/ \E e \in WorldHandles : DestroyEntity(e)
    \/ \E T \in ComponentTypes, e \in WorldHandles, v \in Values : AddComponent(T, e, v)
    \/ \E T \in ComponentTypes, e \in WorldHandles : RemoveComponent(T, e)
    \/ ClearWorld
    \/ Stats

SpecStats == Init /\ [][NextStats]_vars

(***************************************************************************)
(* The calls made on the system manager                                    *)
(***************************************************************************)
\* the systems of the model, and the longest list of systems it builds
MaxSystems == 3
MaxSystemList == 3
Systems == 1..MaxSystems

\* the map with the entry of the system set to the value given
SetEnabled(enabled, system, value) ==
    [t \in DOMAIN enabled \cup {system} |-> IF t = system THEN value ELSE enabled[t]]

\* the call record of a call on the system manager
SysOpRec(name, system) == [OpRec(name, NullEntity, FALSE) EXCEPT !.val = system]

AddSystem(system) ==
    /\ Len(systemManager.systems) < MaxSystemList
    /\ systemManager' = [systems |-> Append(systemManager.systems, system),
                         enabled |-> SetEnabled(systemManager.enabled, system, TRUE)]
    /\ op' = SysOpRec("AddSystem", system)
    /\ UNCHANGED <<emVars, worldVars, ssVars, poolVars, queryVars, iterVars>>

\* the first position that holds the system is cut out of the list and the
\* system's entry is deleted from the map; a system not in the list changes nothing
RemoveSystem(system) ==
    /\ LET sm == systemManager
           at == {i \in 1..Len(sm.systems) : sm.systems[i] = system}
       IN IF at = {}
          THEN systemManager' = sm
          ELSE LET i == CHOOSE k \in at : \A m \in at : k <= m IN
               systemManager' =
                   [systems |-> SubSeq(sm.systems, 1, i - 1)
                                    \o SubSeq(sm.systems, i + 1, Len(sm.systems)),
                    enabled |-> [t \in DOMAIN sm.enabled \ {system} |-> sm.enabled[t]]]
    /\ op' = SysOpRec("RemoveSystem", system)
    /\ UNCHANGED <<emVars, worldVars, ssVars, poolVars, queryVars, iterVars>>

EnableSystem(system) ==
    /\ systemManager' = [systemManager EXCEPT
                            !.enabled = SetEnabled(@, system, TRUE)]
    /\ op' = SysOpRec("EnableSystem", system)
    /\ UNCHANGED <<emVars, worldVars, ssVars, poolVars, queryVars, iterVars>>

DisableSystem(system) ==
    /\ systemManager' = [systemManager EXCEPT
                            !.enabled = SetEnabled(@, system, FALSE)]
    /\ op' = SysOpRec("DisableSystem", system)
    /\ UNCHANGED <<emVars, worldVars, ssVars, poolVars, queryVars, iterVars>>

\* SystemManager.Update: the list is walked in order and Update is called on
\* each position whose system is enabled; the record keeps the calls in order
UpdateSystems ==
    /\ op' = SysOpRec("Update", 0) @@
                [calls |-> SelectSeq(systemManager.systems,
                                     LAMBDA system : SMIsEnabled(systemManager, system))]
    /\ UNCHANGED <<emVars, worldVars, ssVars, poolVars, queryVars, iterVars, sysVars>>

NextSystem ==
    \/ \E system \in Systems : AddSystem(system)
    \/ \E system \in Systems : RemoveSystem(system)
    \/ \E system \in Systems : EnableSystem(system)
    \/ \E system \in Systems : DisableSystem(system)
    \/ UpdateSystems
    \/ ClearWorld

SpecSystem == Init /\ [][NextSystem]_vars

(***************************************************************************)
(* The calls made on a Query and a ViewBuilder                             *)
(***************************************************************************)
\* the component types of the queries, and those that the worlds queried
\* have registered, in the order of their registration
QueryTypes == <<"Position", "Velocity", "Name">>

InitTypes == <<"Position", "Velocity">>

\* the component ids handed to the ViewBuilder
ComponentIDs == 0..(Len(QueryTypes) - 1)

\* the value AddComponent gives entity its component of type T
ComponentValue(T, entity) ==
    10 * (CHOOSE k \in 1..Len(QueryTypes) : QueryTypes[k] = T) + Index(entity)

\* the entity manager after n calls of Create
RECURSIVE EMWith(_)
EMWith(n) == IF n = 0 THEN NewEntityManager ELSE EMCreate(EMWith(n - 1)).em

\* the sequences without repetition of elements of S
OrderedSubsets(S) ==
    {f \in UNION {[1..n -> S] : n \in 0..Cardinality(S)} :
        \A a, b \in 1..Len(f) : a # b => f[a] # f[b]}

\* the world after Register[T] and AddComponent[T] for each entity of seq in turn
RECURSIVE AddAll(_, _, _)
AddAll(w, T, seq) ==
    IF seq = <<>>
    THEN [w EXCEPT !.componentRegistry = Register(@, T).cr]
    ELSE WorldAddComponent(AddAll(w, T, SubSeq(seq, 1, Len(seq) - 1)), T,
                           seq[Len(seq)], ComponentValue(T, seq[Len(seq)]))

\* the world after AddAll for the first k types with the entities of fill[k]
RECURSIVE Populate(_, _, _)
Populate(w, fill, k) ==
    IF k = 0 THEN w
    ELSE AddAll(Populate(w, fill, k - 1), QueryTypes[k], fill[k])

\* the worlds queried: MaxQueryEntities entities, some of the InitTypes
\* registered, each with a pool filled in some order with some of the entities
QueryWorlds ==
    LET w0 == [entityManager |-> EMWith(MaxQueryEntities),
               componentRegistry |-> NewComponentRegistry]
        E == {makeEntity(i, 0) : i \in 0..(MaxQueryEntities - 1)}
    IN {Populate(w0, fill, Len(fill)) :
            fill \in UNION {[1..k -> OrderedSubsets(E)] : k \in 0..Len(InitTypes)}}

\* the world of four entities A, B, C, D with Position on A, B, C, Velocity
\* on B, C and Name on C, D
ExampleWorld ==
    LET A == makeEntity(0, 0)
        B == makeEntity(1, 0)
        C == makeEntity(2, 0)
        D == makeEntity(3, 0)
        w0 == [entityManager |-> EMWith(4), componentRegistry |-> NewComponentRegistry]
    IN Populate(w0, <<(<<A, B, C>>), (<<B, C>>), (<<C, D>>)>>, 3)

InitQuery ==
    \E w \in QueryWorlds \cup {ExampleWorld} :
        /\ entities = w.entityManager.entities
        /\ freeHead = w.entityManager.freeHead
        /\ registry = w.componentRegistry
        /\ live = {makeEntity(i, 0) : i \in 0..(Len(w.entityManager.entities) - 1)}
        /\ destroyed = {}
        /\ slotGen = [i \in 1..Len(w.entityManager.entities) |-> 0]
        /\ issued = live
        /\ freed = <<>>
        /\ op = NoOp
        /\ ss = NewSparseSet
        /\ members = {}
        /\ pool = NewComponentPool
        /\ lastVal = [e \in {} |-> 0]
        /\ query = NewQuery
        /\ result = NewQueryResult(<<>>, -1)
        /\ iter = NoIterator
        /\ visited = <<>>
        /\ strict = TRUE
        /\ systemManager = NewSystemManager

\* the number of component ids the query names
Criteria(q) == Len(q.include) + Len(q.exclude) + Len(q.includeAny) + Len(q.excludeAny)

\* a call on the query, made before its Build
QueryCall(name, T, r) ==
    /\ op.name # "Build"
    /\ Criteria(query) < MaxCriteria
    /\ registry' = r.cr
    /\ query' = r.q
    /\ op' = [WorldOpRec(name, NullEntity, FALSE) EXCEPT !.type = T]
    /\ UNCHANGED <<result, emVars, ssVars, poolVars, iterVars, sysVars>>

WithCall(T) == QueryCall("With", T, With(registry, query, T))

WithoutCall(T) == QueryCall("Without", T, Without(registry, query, T))

WithAnyCall(T) == QueryCall("WithAny", T, WithAny(registry, query, T))

WithoutAnyCall(T) == QueryCall("WithoutAny", T, WithoutAny(registry, query, T))

\* the calls on the ViewBuilder hand over one component id each
IncludeCall(id) ==
    QueryCall("Include", "", [cr |-> registry, q |-> Include(query, <<id>>)])

ExcludeCall(id) ==
    QueryCall("Exclude", "", [cr |-> registry, q |-> Exclude(query, <<id>>)])

IncludeAnyCall(id) ==
    QueryCall("IncludeAny", "", [cr |-> registry, q |-> IncludeAny(query, <<id>>)])

ExcludeAnyCall(id) ==
    QueryCall("ExcludeAny", "", [cr |-> registry, q |-> ExcludeAny(query, <<id>>)])

Build ==
    /\ op.name # "Build"
    /\ \E qr \in QueryBuild(registry, query) : result' = qr
    /\ op' = WorldOpRec("Build", NullEntity, FALSE)
    /\ UNCHANGED <<query, emVars, worldVars, ssVars, poolVars, iterVars, sysVars>>

\* the world a client reaches that also passes the handle Entity(0.1), which
\* CreateEntity never returned: after DestroyEntity of B and then of A, slot 0
\* stores the link 1 and IsValidEntity accepts Entity(0.1); Position is added
\* to it, A is created again, given Position and destroyed, and Position is
\* added to Entity(0.1) once more
ForgedWorld ==
    LET A == makeEntity(0, 0)
        B == makeEntity(1, 0)
        F == makeEntity(0, 1)
        T == QueryTypes[1]
        w0 == [entityManager |-> EMWith(2), componentRegistry |-> NewComponentRegistry]
        w1 == WorldDestroyEntity(WorldDestroyEntity(w0, B).w, A).w
        w2 == WorldAddComponent(w1, T, F, ComponentValue(T, F))
        w3 == [w2 EXCEPT !.entityManager = EMCreate(@).em]
        w4 == WorldDestroyEntity(WorldAddComponent(w3, T, A, ComponentValue(T, A)), A).w
    IN WorldAddComponent(w4, T, F, ComponentValue(T, F))

InitForged ==
    /\ entities = ForgedWorld.entityManager.entities
    /\ freeHead = ForgedWorld.entityManager.freeHead
    /\ registry = ForgedWorld.componentRegistry
    /\ live = {}
    /\ destroyed = {}
    /\ slotGen = [i \in 1..Len(entities) |-> 0]
    /\ issued = {makeEntity(i, 0) : i \in 0..(Len(entities) - 1)}
    /\ freed = <<1, 0>>
    /\ op = NoOp
    /\ ss = NewSparseSet
    /\ members = {}
    /\ pool = NewComponentPool
    /\ lastVal = [e \in {} |-> 0]
    /\ query = NewQuery
    /\ result = NewQueryResult(<<>>, -1)
    /\ iter = NoIterator
    /\ visited = <<>>
    /\ strict = TRUE
    /\ systemManager = NewSystemManager

NextQuery ==
    \/ \E k \in 1..Len(QueryTypes) : WithCall(QueryTypes[k])
    \/ \E k \in 1..Len(QueryTypes) : WithoutCall(QueryTypes[k])
    \/ \E k \in 1..Len(QueryTypes) : WithAnyCall(QueryTypes[k])
    \/ \E k \in 1..Len(QueryTypes) : WithoutAnyCall(QueryTypes[k])
    \/ \E id \in ComponentIDs : IncludeCall(id)
    \/ \E id \in ComponentIDs : ExcludeCall(id)
    \/ \E id \in ComponentIDs : IncludeAnyCall(id)
    \/ \E id \in ComponentIDs : ExcludeAnyCall(id)
    \/ Build

SpecQuery == InitQuery /\ [][NextQuery]_vars

SpecForged == InitForged /\ [][NextQuery]_vars

(***************************************************************************)
(* The calls made on an iterator, and those its callback makes on the      *)
(* World                                                                   *)
(***************************************************************************)
\* the handles the callback passes to the World
IterEntities == {makeEntity(i, 0) : i \in 0..(Len(entities) - 1)}

\* what the callback does when it is called: nothing, or one call on the
\* World for a type of the iterator
Callbacks ==
    {[kind |-> "none", type |-> "", e |-> NullEntity, val |-> 0]}
    \cup {[kind |-> "RemoveComponent", type |-> T, e |-> e, val |-> 0] :
             T \in Range(iter.types), e \in IterEntities}
    \cup {[kind |-> "AddComponent", type |-> T, e |-> e, val |-> v] :
             T \in Range(iter.types), e \in IterEntities, v \in Values}
    \cup {[kind |-> "DestroyEntity", type |-> "", e |-> e, val |-> 0] : e \in IterEntities}
    \cup {[kind |-> "CreateEntity", type |-> "", e |-> NullEntity, val |-> 0]}

\* the world after the callback has made its call
CallFn(w, m) ==
    CASE m.kind = "none" -> w
      [] m.kind = "RemoveComponent" -> WorldRemoveComponent(w, m.type, m.e).w
      [] m.kind = "AddComponent" -> WorldAddComponent(w, m.type, m.e, m.val)
      [] m.kind = "DestroyEntity" -> WorldDestroyEntity(w, m.e).w
      [] m.kind = "CreateEntity" -> [w EXCEPT !.entityManager = EMCreate(@).em]

\* the callback removes a component from the entity it is called for, or
\* leaves the World alone
RemovesVisited(m, entity) ==
    m.kind = "none" \/ (m.kind = "RemoveComponent" /\ m.e = entity)

\* NewIterator1, 2 or 3, for the types given
NewIteratorCall(types) ==
    /\ iter = NoIterator
    /\ LET it == NewIterator(registry, types) IN
        /\ registry' = it.cr
        /\ query' = it.q
        /\ \E qr \in QueryBuild(it.cr, it.q) : result' = qr
        /\ iter' = [types |-> types, pools |-> it.pools, pos |-> 0]
    /\ op' = WorldOpRec("NewIterator", NullEntity, FALSE)
    /\ UNCHANGED <<visited, strict, emVars, ssVars, poolVars, sysVars>>

NewIterator1Call(T1) == NewIteratorCall(<<T1>>)

NewIterator2Call(T1, T2) == NewIteratorCall(<<T1, T2>>)

NewIterator3Call(T1, T2, T3) == NewIteratorCall(<<T1, T2, T3>>)

\* one round of the loop of ForEach of the iterator of n types: the pointers
\* are fetched for the next entity of the result and, when none is nil, the
\* callback is called and does m. A nil pool ends the loop in a panic.
ForEachStep(n, m) ==
    /\ Len(iter.types) = n
    /\ op.name # "panic"
    /\ iter.pos < QRSize(result)
    /\ LET entity == QREntities(registry, result)[iter.pos + 1]
           ptrs == GetPtrs(registry, iter.pools, entity)
       IN IF \E k \in 1..n : ptrs[k] = -2
          THEN /\ m.kind = "none"
               /\ op' = WorldOpRec("panic", entity, FALSE)
               /\ UNCHANGED <<entities, freeHead, registry, visited, strict>>
          ELSE IF AllNotNil(ptrs)
          THEN /\ m.kind = "CreateEntity" => freeHead >= 0
               /\ visited' = Append(visited,
                     [e |-> entity,
                      ptrs |-> ptrs,
                      vals |-> [k \in 1..n |->
                                   IF ptrs[k] < 0 THEN 0
                                   ELSE registry.storages[iter.pools[k]].components[ptrs[k] + 1]],
                      own |-> [k \in 1..n |->
                                  /\ ptrs[k] >= 0
                                  /\ ptrs[k] < registry.storages[iter.pools[k]].entities.size
                                  /\ registry.storages[iter.pools[k]].entities.dense[ptrs[k] + 1]
                                         = entity]])
               /\ SetWorld(CallFn(W, m))
               /\ strict' = (strict /\ RemovesVisited(m, entity))
               /\ op' = [WorldOpRec("ForEach", entity, TRUE) EXCEPT !.type = m.kind]
          ELSE /\ m.kind = "none"
               /\ op' = WorldOpRec("ForEach", entity, FALSE)
               /\ UNCHANGED <<entities, freeHead, registry, visited, strict>>
    /\ iter' = [iter EXCEPT !.pos = @ + 1]
    /\ UNCHANGED <<live, destroyed, slotGen, issued, freed, query, result, ssVars, poolVars, sysVars>>

ForEach1Step(m) == ForEachStep(1, m)

ForEach2Step(m) == ForEachStep(2, m)

ForEach3Step(m) == ForEachStep(3, m)

\* the type parameters of an iterator: n component types that differ
IterTypes(n) ==
    {t \in [1..n -> Range(QueryTypes)] : \A a, b \in 1..n : a # b => t[a] # t[b]}

NextIter ==
    \/ \E t \in IterTypes(1) : NewIterator1Call(t[1])
    \/ \E t \in IterTypes(2) : NewIterator2Call(t[1], t[2])
    \/ \E t \in IterTypes(3) : NewIterator3Call(t[1], t[2], t[3])
    \/ \E m \in Callbacks : ForEach1Step(m)
    \/ \E m \in Callbacks : ForEach2Step(m)
    \/ \E m \in Callbacks : ForEach3Step(m)

SpecIter == InitQuery /\ [][NextIter]_vars

(***************************************************************************)
(* Claims about the entity manager, under Spec                             *)
(***************************************************************************)

\* C1: when Destroy(e) of a live entity e has succeeded and Create() is the
\* next call, the entity Create returns is not e and IsValid(e) is false
\* afterwards, also when the new entity reuses e's index.
C1_RecyclingSafety ==
    [][(op.name = "Destroy" /\ op.ret /\ op.wasLive /\ Called("Create"))
        => (op'.e # op.e /\ ~IsValid(op.e)')]_vars

\* C2: in every reachable state IsValid(e) holds exactly for the handles
\* returned by Create and not successfully destroyed since.
C2_ValidIffLive ==
    \A e \in Handles : IsValid(e) <=> e \in live

\* C3: when Destroy(e) has returned true and the next call is Destroy(e)
\* again, it returns false and leaves the entity array and the free-list
\* head as they were.
C3_DoubleDestroyFails ==
    [][(op.name = "Destroy" /\ op.ret /\ Called("Destroy") /\ op'.e = op.e)
        => (~op'.ret /\ entities' = entities /\ freeHead' = freeHead)]_vars

\* C5: when Create reuses an index of the free list, the generation of the
\* entity returned is the generation of the slot's previous life plus one
\* modulo 2^12, hence different from it.
C5_GenerationIncrementsOnReuse ==
    [][(Called("Create") /\ op'.reused)
        => LET prev == slotGen[Index(op'.e) + 1] IN
            /\ Generation(op'.e) = (prev + 1) % GenerationRange
            /\ Generation(op'.e) # prev]_vars

\* C6: Destroy(e) returns false and changes neither the entity array nor the
\* free-list head when e is NullEntity, when e.Index() is out of range or
\* when the value stored at e.Index() differs from e.Generation(); otherwise
\* it returns true and e.Index() is the new head of the free list.
C6_DestroyContract ==
    [][Called("Destroy") =>
        LET e == op'.e
            rejected == \/ e = NullEntity
                        \/ Index(e) >= Len(entities)
                        \/ entities[Index(e) + 1] # Generation(e)
        IN IF rejected
           THEN ~op'.ret /\ entities' = entities /\ freeHead' = freeHead
           ELSE op'.ret /\ freeHead' = Index(e)]_vars

\* a Destroy that succeeded on a manager of several slots, and whose index
\* heads the free list
C6_Witness ==
    /\ op.name = "Destroy" /\ op.ret
    /\ Len(entities) > 1
    /\ freeHead = Index(op.e)
    /\ Index(op.e) > 0

(***************************************************************************)
(* Claims about the World, under SpecWorld                                 *)
(***************************************************************************)

\* C4: a call on the World with the handle of an entity that has been
\* destroyed, reissued or not, reports failure and mutates nothing:
\* DestroyEntity and RemoveComponent return false, GetComponent finds
\* nothing, GetComponentPtr returns nil, HasComponent returns false and
\* AddComponent leaves every pool unchanged.
C4_DestroyedHandleRejected ==
    [][\A name \in {"DestroyEntity", "RemoveComponent", "GetComponent",
                    "GetComponentPtr", "HasComponent", "AddComponent"} :
        (Called(name) /\ op'.e \in destroyed) =>
            /\ name # "AddComponent" => ~op'.ret
            /\ registry'.storages = registry.storages
            /\ entities' = entities
            /\ freeHead' = freeHead]_vars

\* C7: after DestroyEntity(e) has returned true no registered pool contains
\* e and HasComponent is false for every component type; when e is not valid
\* DestroyEntity returns false and touches no pool.
C7_DestroyEntityCascades ==
    [][Called("DestroyEntity") =>
        LET e == op'.e IN
        /\ op'.ret =>
            /\ \A id \in DOMAIN registry'.storages :
                  ~CPContains(registry'.storages[id], e)
            /\ \A T \in ComponentTypes : ~WorldHasComponent(W', T, e)
        /\ ~IsValid(e) => (~op'.ret /\ registry' = registry)]_vars

\* a DestroyEntity that returned true for an entity held by every pool
C7_Witness ==
    /\ op.name = "DestroyEntity" /\ op.ret
    /\ op.val = Cardinality(ComponentTypes)
    /\ DOMAIN registry.storages # {}
    /\ \A id \in DOMAIN registry.storages : ~CPContains(registry.storages[id], op.e)

(***************************************************************************)
(* Claims about the sparse set, under SpecSS                               *)
(***************************************************************************)

\* C8: after any sequence of Insert, Remove, Clear, Swap, Sort and Respect
\* with non-null entities, also entities of one index and different
\* generations, sparse[dense[i].Index()] == i for every i in [0, size).
C8_DenseSparseCorrespondence ==
    \A i \in 0..(ss.size - 1) :
        /\ Index(ss.dense[i + 1]) < Len(ss.sparse)
        /\ ss.sparse[Index(ss.dense[i + 1]) + 1] = i

\* C9: the sparse set is a set of handles: Contains(e) holds exactly for the
\* handles whose Insert returned true and that were not removed or cleared
\* since, Size() is their number, Insert returns false iff e is null or
\* already contained, and Remove returns false iff e is not contained.
C9_SetOfHandles ==
    /\ [](/\ \A e \in SSHandles \cup {NullEntity} : SSContains(ss, e) <=> e \in members
          /\ SSSize(ss) = Cardinality(members))
    /\ [][/\ Called("SSInsert") =>
                (~op'.ret <=> (op'.e = NullEntity \/ op'.e \in members))
          /\ Called("SSRemove") =>
                (~op'.ret <=> op'.e \notin members)]_vars

\* C10: after any sequence of inserts and removes dense[0..size) holds no
\* entity twice, and every entity in it has sparse[entity.Index()] in [0, size).
C10_Density ==
    /\ \A i, j \in 0..(ss.size - 1) : i # j => ss.dense[i + 1] # ss.dense[j + 1]
    /\ \A i \in 0..(ss.size - 1) :
        /\ Index(ss.dense[i + 1]) < Len(ss.sparse)
        /\ ss.sparse[Index(ss.dense[i + 1]) + 1] >= 0
        /\ ss.sparse[Index(ss.dense[i + 1]) + 1] < ss.size

\* C11: when Remove(e) is called on a set that contains e, at any dense
\* position, the size decreases by exactly one, e is no longer contained,
\* every other entity that was contained is still contained, and Index(x) of
\* each of them is the dense position that holds x; only the former last
\* element may have changed position.
C11_SwapRemove ==
    [][(Called("SSRemove") /\ SSContains(ss, op'.e)) =>
        /\ op'.ret
        /\ SSSize(ss') = SSSize(ss) - 1
        /\ ~SSContains(ss', op'.e)
        /\ \A x \in SSHandles \ {op'.e} :
              SSContains(ss, x) =>
                  /\ SSContains(ss', x)
                  /\ ss'.dense[SSIndex(ss', x) + 1] = x
                  /\ \/ SSIndex(ss', x) = SSIndex(ss, x)
                     \/ SSIndex(ss, x) = SSSize(ss) - 1]_vars

Built == op.name = "Build"

\* the entities in the dense prefix of the pool of a component id, none when
\* the id has no pool
PoolSet(id) ==
    IF id \in DOMAIN registry.storages
    THEN Range(SSData(registry.storages[id].entities))
    ELSE {}

\* the entities that meet the four criteria of q
Matching(q) ==
    {e \in UNION {PoolSet(id) : id \in DOMAIN registry.storages} :
        /\ \A k \in 1..Len(q.include) : e \in PoolSet(q.include[k])
        /\ \A k \in 1..Len(q.exclude) : e \notin PoolSet(q.exclude[k])
        /\ Len(q.includeAny) > 0 => \E k \in 1..Len(q.includeAny) : e \in PoolSet(q.includeAny[k])
        /\ \A k \in 1..Len(q.excludeAny) : e \notin PoolSet(q.excludeAny[k])}

\* the world is the example world and the query names the ids inc, exc, any
ExampleQuery(inc, exc, any) ==
    /\ registry = ExampleWorld.componentRegistry
    /\ query = [include |-> inc, exclude |-> exc, includeAny |-> any, excludeAny |-> <<>>]

\* C13: for a query with include or includeAny not empty, Build returns
\* exactly the entities that are in every include pool, in no exclude pool, in
\* some includeAny pool when includeAny is not empty, and in no excludeAny
\* pool, on the include path and on the includeAny path; over A, B, C with
\* Position, B, C with Velocity and C, D with Name, With(P), Without(V) gives
\* {A} and WithAny(V), WithAny(N) gives {B, C, D}.
C13_QueryCorrectness ==
    Built =>
        /\ (Len(query.include) > 0 \/ Len(query.includeAny) > 0) =>
              Range(QREntities(registry, result)) = Matching(query)
        /\ ExampleQuery(<<0>>, <<1>>, <<>>) =>
              Range(QREntities(registry, result)) = {makeEntity(0, 0)}
        /\ ExampleQuery(<<>>, <<>>, <<1, 2>>) =>
              Range(QREntities(registry, result)) =
                  {makeEntity(1, 0), makeEntity(2, 0), makeEntity(3, 0)}

\* Build has answered WithAny(V), WithAny(N) on the example world
C13_Witness ==
    /\ Built
    /\ ExampleQuery(<<>>, <<>>, <<1, 2>>)
    /\ QRSize(result) = 3

\* C14: a query whose include and includeAny are both empty builds the empty
\* result, whatever its exclude and excludeAny and whatever the world holds.
C14_NoPositiveCriterion ==
    (Built /\ Len(query.include) = 0 /\ Len(query.includeAny) = 0) =>
        /\ QREntities(registry, result) = <<>>
        /\ QRSize(result) = 0

\* Build has answered a query of exclusions only on a world where some
\* entity is in none of the excluded pools
C14_Witness ==
    /\ Built
    /\ Len(query.include) = 0 /\ Len(query.includeAny) = 0
    /\ Len(query.exclude) > 0
    /\ Matching(query) # {}
    /\ QRSize(result) = 0

\* C15: when some id of the include list has no registered pool, Build
\* returns the empty result, also when other ids of the list have pools that
\* hold entities.
C15_UnregisteredInclude ==
    (Built /\ \E k \in 1..Len(query.include) : query.include[k] \notin DOMAIN registry.storages) =>
        QREntities(registry, result) = <<>>

\* Build has answered Include of a pool that holds entities and of an id
\* without a pool
C15_Witness ==
    /\ Built
    /\ \E j, k \in 1..Len(query.include) :
          /\ PoolSet(query.include[j]) # {}
          /\ query.include[k] \notin DOMAIN registry.storages
    /\ QRSize(result) = 0

\* C16, as the claim states it: when the exclude list names an id without a
\* registered pool, no candidate is kept.
C16_UnregisteredExcludeRejects ==
    (Built /\ \E k \in 1..Len(query.exclude) : query.exclude[k] \notin DOMAIN registry.storages) =>
        QREntities(registry, result) = <<>>

\* the query q without the ids of its exclude list that have no pool
DropUnregisteredExclude(q) ==
    [q EXCEPT !.exclude = SelectSeq(@, LAMBDA id : id \in DOMAIN registry.storages)]

\* C16, amended: an exclude id without a registered pool is passed over by the
\* filter of Build (no entity has it): Build returns what it returns for the
\* same query without that id, so the candidates that meet the other criteria
\* are kept; only an include id without a pool rejects every candidate.
C16_UnregisteredExcludeIgnored ==
    Built =>
        /\ result \in QueryBuild(registry, DropUnregisteredExclude(query))
        /\ (Len(query.include) > 0 \/ Len(query.includeAny) > 0) =>
              Range(QREntities(registry, result)) = Matching(DropUnregisteredExclude(query))

\* Build has kept an entity although the exclude list names an id without a
\* pool
C16_Witness ==
    /\ Built
    /\ \E k \in 1..Len(query.exclude) : query.exclude[k] \notin DOMAIN registry.storages
    /\ QRSize(result) > 0

\* the first of the include ids whose pool is smallest
FirstSmallest(include) ==
    include[CHOOSE k \in 1..Len(include) :
        /\ \A j \in 1..Len(include) :
              CPSize(registry.storages[include[k]]) <= CPSize(registry.storages[include[j]])
        /\ \A j \in 1..(k - 1) :
              CPSize(registry.storages[include[j]]) > CPSize(registry.storages[include[k]])]

\* C17: for a query whose include list is not empty and names registered ids
\* only, the result is the dense sequence of the smallest include pool, the
\* first met among equally small ones, restricted to the entities that pass
\* the filter; it is not sorted by entity value.
C17_ResultOrder ==
    (/\ Built
     /\ Len(query.include) > 0
     /\ \A k \in 1..Len(query.include) : query.include[k] \in DOMAIN registry.storages) =>
        QREntities(registry, result) =
            SelectSeq(SSData(registry.storages[FirstSmallest(query.include)].entities),
                      LAMBDA e : e \in Matching(query))

\* Build has answered a query on two pools of one size and of different
\* dense orders with a result that follows the first and is not ascending
C17_Witness ==
    /\ Built
    /\ Len(query.include) = 2
    /\ \A k \in 1..2 : query.include[k] \in DOMAIN registry.storages
    /\ CPSize(registry.storages[query.include[1]]) = CPSize(registry.storages[query.include[2]])
    /\ SSData(registry.storages[query.include[1]].entities) #
           SSData(registry.storages[query.include[2]].entities)
    /\ QRSize(result) >= 2
    /\ result.entities[1] > result.entities[2]

(***************************************************************************)
(* Claims about QueryResult and the iterators, under SpecIter              *)
(***************************************************************************)
\* C18: a QueryResult is a snapshot: no AddComponent, RemoveComponent,
\* CreateEntity or DestroyEntity made after Build changes what Entities() and
\* Size() return, also when a removal relocates entries of the pool that
\* supplied the candidates.
C18_Snapshot ==
    [][iter # NoIterator =>
          /\ QREntities(registry', result') = QREntities(registry, result)
          /\ QRSize(result') = QRSize(result)]_vars

\* the result of an iterator of one type still begins with the entity whose
\* component a callback has removed, while the pool now begins with another
\* entity of the result, moved there by the removal
C18_Witness ==
    /\ Len(iter.types) = 1
    /\ iter.pools[1] # -1
    /\ op.name = "ForEach" /\ op.type = "RemoveComponent"
    /\ QRSize(result) >= 2
    /\ CPSize(registry.storages[iter.pools[1]]) >= 1
    /\ SSAt(registry.storages[iter.pools[1]].entities, 0) # QREntities(registry, result)[1]
    /\ SSAt(registry.storages[iter.pools[1]].entities, 0) \in Range(QREntities(registry, result))

\* C19: ForEach of Iterator1, 2 and 3 calls the callback for an entity of the
\* snapshot only if, at that moment, the pool of every requested type holds
\* the entity: an entity that lost a requested component earlier in the
\* traversal is not passed.
C19_CallbackOnlyIfPresent ==
    [][Len(visited') > Len(visited) =>
          \A k \in 1..Len(iter.types) :
              /\ GetStorage(registry, iter.types[k]).exists
              /\ CPContains(registry.storages[GetStorage(registry, iter.types[k]).id],
                            visited'[Len(visited')].e)]_vars

\* a traversal is over in which an entity was passed and another entity of
\* the snapshot was not
C19_Witness ==
    /\ iter # NoIterator
    /\ iter.pos = QRSize(result)
    /\ Len(visited) >= 1
    /\ \E e \in Range(result.entities) : \A i \in 1..Len(visited) : visited[i].e # e

\* C20: while the callbacks only remove a component from the entity they are
\* called for, ForEach passes every entity of the snapshot exactly once, in
\* the order of the snapshot, and each pointer passed addresses the slot of
\* the pool that holds that entity and its value.
C20_RemoveVisitedSafe ==
    (iter # NoIterator /\ strict) =>
        /\ [i \in 1..Len(visited) |-> visited[i].e] = SubSeq(result.entities, 1, iter.pos)
        /\ \A i \in 1..Len(visited) : \A k \in 1..Len(iter.types) :
              /\ visited[i].own[k]
              /\ visited[i].vals[k] = ComponentValue(iter.types[k], visited[i].e)

\* a traversal is over in which the callback removed a component of the first
\* entity and the second entity was then passed with a pointer to the slot
\* the first one had
C20_Witness ==
    /\ iter # NoIterator /\ strict
    /\ iter.pos = QRSize(result)
    /\ Len(visited) >= 2
    /\ \E k \in 1..Len(iter.types) :
          /\ ~CPContains(registry.storages[iter.pools[k]], visited[1].e)
          /\ visited[2].ptrs[k] = visited[1].ptrs[k]

(***************************************************************************)
(* Claims about the registry, under SpecQuery                              *)
(***************************************************************************)
\* the list of the query that the call named appends to
ListOf(q, name) ==
    CASE name = "With" -> q.include
      [] name = "Without" -> q.exclude
      [] name = "WithAny" -> q.includeAny
      [] name = "WithoutAny" -> q.excludeAny

\* the calls that register their type parameter
Registering == {"With", "Without", "WithAny", "WithoutAny"}

\* C21: Register returns the same id for a type on every call, distinct
\* types have distinct ids, and the ids handed out are 0, 1, 2, ... in the
\* order of first registration, with exactly one pool for each id.
C21_Registration ==
    /\ [](/\ \A T1, T2 \in DOMAIN registry.typeToID :
                registry.typeToID[T1] = registry.typeToID[T2] => T1 = T2
          /\ {registry.typeToID[T] : T \in DOMAIN registry.typeToID}
                = 0..(registry.nextID - 1)
          /\ DOMAIN registry.storages = 0..(registry.nextID - 1))
    /\ [][/\ \A T \in DOMAIN registry.typeToID :
                /\ T \in DOMAIN registry'.typeToID
                /\ registry'.typeToID[T] = registry.typeToID[T]
          /\ op'.name \in Registering =>
                LET ids == ListOf(query', op'.name)
                    id == ids[Len(ids)]
                IN /\ id = registry'.typeToID[op'.type]
                   /\ op'.type \in DOMAIN registry.typeToID =>
                         /\ id = registry.typeToID[op'.type]
                         /\ registry' = registry
                   /\ op'.type \notin DOMAIN registry.typeToID =>
                         /\ id = registry.nextID
                         /\ registry'.nextID = registry.nextID + 1
                         /\ registry'.storages[id] = NewComponentPool]_vars

\* With has been called twice for one type, after another type was
\* registered, and has appended the same id both times
C21_Witness ==
    /\ op.name = "With"
    /\ Len(query.include) = 2
    /\ query.include[1] = query.include[2]
    /\ query.include[2] = registry.typeToID[op.type]
    /\ registry.nextID >= 2

(***************************************************************************)
(* The calls of makeEntity                                                 *)
(***************************************************************************)
\* the indices and generations given to makeEntity: both ends of the 20-bit
\* and of the 12-bit range
EdgeIndices == (0..MaxEdge) \cup ((IndexRange - 1 - MaxEdge)..(IndexRange - 1))
EdgeGenerations ==
    (0..MaxEdge) \cup ((GenerationRange - 1 - MaxEdge)..(GenerationRange - 1))

\* makeEntity(index, generation): the record keeps the arguments, the entity
\* returned, and the same of the call before
MakeEntityCall(index, generation) ==
    /\ op' = [name |-> "makeEntity", index |-> index, generation |-> generation,
              e |-> makeEntity(index, generation),
              prev |-> IF op.name = "makeEntity"
                       THEN [name |-> op.name, index |-> op.index,
                             generation |-> op.generation, e |-> op.e]
                       ELSE [name |-> "none", index |-> 0, generation |-> 0,
                             e |-> NullEntity]]
    /\ UNCHANGED <<emVars, worldVars, ssVars, poolVars, queryVars, iterVars, sysVars>>

NextEntity ==
    \E index \in EdgeIndices, generation \in EdgeGenerations :
        MakeEntityCall(index, generation)

SpecEntity == Init /\ [][NextEntity]_vars

\* ---------------------------------------------------------------------
\* Claims about Clear and the handle encoding
\* ---------------------------------------------------------------------

\* C22: after EntityManager.Clear, IsValid is false for every handle that was
\* issued before the Clear, and stays false for those handles when new
\* entities are created afterwards.
C22_ClearInvalidates ==
    [][/\ Called("Clear") => \A e \in issued : ~IsValid(e)'
       /\ op.name = "Clear" /\ Called("Create")
            => \A e \in op.issued : ~IsValid(e)']_vars

\* C23: for every index below 2^20 and generation below 2^12,
\* makeEntity(index, generation) has that Index() and that Generation(), and
\* two entities so made are equal exactly when both fields are equal.
C23_IdentityRoundTrip ==
    op.name = "makeEntity"
        => /\ Index(op.e) = op.index
           /\ Generation(op.e) = op.generation
           /\ op.prev.name = "makeEntity"
                => ((op.e = op.prev.e)
                        <=> (/\ op.index = op.prev.index
                             /\ op.generation = op.prev.generation))

\* the largest index with the largest generation, whose entity is NullEntity,
\* after the same index with the smallest generation
C23_Witness ==
    /\ op.name = "makeEntity"
    /\ op.index = IndexRange - 1
    /\ op.generation = GenerationRange - 1
    /\ op.e = NullEntity
    /\ op.prev.name = "makeEntity"
    /\ op.prev.index = op.index
    /\ op.prev.generation = 0
    /\ op.prev.e # op.e

\* ---------------------------------------------------------------------
\* Claims about ComponentPool.Sort and Respect, under SpecPool
\* ---------------------------------------------------------------------
\* the elements of seq that are in S, in the order of seq
RECURSIVE Keep(_, _)
Keep(seq, S) ==
    IF seq = <<>> THEN <<>>
    ELSE (IF Head(seq) \in S THEN <<Head(seq)>> ELSE <<>>) \o Keep(Tail(seq), S)

\* sparse[dense[i].Index()] = i for every position of the dense prefix
SparseConsistent(s) ==
    \A i \in 0..(s.size - 1) : s.sparse[Index(s.dense[i + 1]) + 1] = i

\* C24: after ComponentPool.Respect(other) with a non-empty other, the pool's
\* entities are first those present in other, in other's dense order, then
\* those absent from other, in their prior relative order; the set of
\* entities is unchanged and sparse agrees with dense.
C24_RespectOrder ==
    [][Called("CPRespect") /\ SSSize(op'.other) > 0
        => LET before == SSData(pool.entities)
               after == SSData(pool'.entities)
               oth == SSData(op'.other)
           IN /\ after = Keep(oth, Range(before))
                            \o Keep(before, Range(before) \ Range(oth))
              /\ Range(after) = Range(before)
              /\ SparseConsistent(pool'.entities)]_vars

\* C27: ComponentPool.Sort keeps entities and components aligned: after
\* Sort(less), Get(e) returns for every entity e what it returned before,
\* and every call of less got each entity together with its own component.
C27_SortCoIndexing ==
    [][Called("CPSort")
        => /\ \A e \in PoolHandles : CPGet(pool', e) = CPGet(pool, e)
           /\ op'.paired]_vars

\* C28: ComponentPool.Respect changes only the order: for any other set
\* (empty, disjoint, overlapping, superset) the pool contains exactly the
\* entities it contained before, and Get(e) returns the value it returned
\* before.
C28_RespectFrame ==
    [][Called("CPRespect")
        => /\ \A e \in PoolHandles \cup {NullEntity} :
                  /\ CPContains(pool', e) = CPContains(pool, e)
                  /\ CPGet(pool', e) = CPGet(pool, e)
           /\ Range(SSData(pool'.entities)) = Range(SSData(pool.entities))
           /\ CPSize(pool') = CPSize(pool)]_vars

\* C25: after SparseSet.Sort(less) with less a strict weak order, dense holds
\* the same set of entities, no adjacent pair of the dense prefix has
\* less(dense[i+1], dense[i]), and sparse[dense[i].Index()] = i for every i
\* below size. (A claim about the sparse set on its own, under SpecSS.)
C25_SortPostcondition ==
    [][Called("SSSort")
        => /\ Range(SSData(ss')) = Range(SSData(ss))
           /\ ss'.size = ss.size
           /\ \A i \in 1..(ss'.size - 1) :
                  ~Less(op'.type, ss'.dense[i + 1], ss'.dense[i])
           /\ SparseConsistent(ss')]_vars

\* ---------------------------------------------------------------------
\* Claims about the free list, under SpecIssued
\* ---------------------------------------------------------------------
\* C26: in any sequence of Create and Destroy that passes to Destroy only
\* handles Create has returned (the same handle any number of times), Create
\* never returns a handle equal to an entity that is alive.
C26_LiveHandlesUnique ==
    [][Called("Create") => op'.e \notin live]_vars

\* the indices the free list visits from index i on, following the stored
\* links until a slot that stores its own index, at most n links
RECURSIVE ChainFrom(_, _)
ChainFrom(i, n) ==
    IF i < 0 \/ i >= Len(entities) THEN <<>>
    ELSE IF entities[i + 1] = i \/ n = 0 THEN <<i>>
    ELSE <<i>> \o ChainFrom(entities[i + 1], n - 1)

FreeChain == ChainFrom(freeHead, Len(entities))

\* C29: after any sequence of Create and Destroy that passes to Destroy only
\* handles Create has returned, the chain from freeHead visits exactly the
\* indices destroyed and not reissued, each once, and ends in a slot that
\* stores its own index; Create appends a slot only when no destroyed index
\* awaits reuse.
C29_FreeListIntegrity ==
    /\ [](/\ Range(FreeChain) = Range(freed)
          /\ Len(FreeChain) = Len(freed)
          /\ FreeChain # <<>>
                => entities[FreeChain[Len(FreeChain)] + 1] = FreeChain[Len(FreeChain)])
    /\ [][Called("Create") /\ Len(entities') > Len(entities) => freed = <<>>]_vars

\* C30: index reuse is last in, first out: when the free list is not empty,
\* Create returns an entity whose index is that of the entity destroyed most
\* recently and not reissued since, and it appends a slot, at generation 0,
\* only when the free list is empty.
C30_ReuseLIFO ==
    [][Called("Create")
        => /\ freeHead >= 0
                => /\ freed # <<>>
                   /\ Index(op'.e) = freed[Len(freed)]
                   /\ Len(entities') = Len(entities)
           /\ Len(entities') > Len(entities)
                => /\ freeHead < 0
                   /\ Index(op'.e) = Len(entities)
                   /\ Generation(op'.e) = 0]_vars

\* ---------------------------------------------------------------------
\* Claims about ComponentPool.ForEach, under SpecPool
\* ---------------------------------------------------------------------
\* C31: when the callback of ComponentPool.ForEach removes only the entity
\* it is visiting, every entity that was in the pool at the start is visited
\* exactly once, and the pointer passed for it addresses the slot that
\* Get and GetPtr use for that entity at that moment.
C31_ForEachRemoveVisited ==
    op.name = "CPForEach"
        => /\ \A e \in Range(op.start) :
                  Cardinality({k \in 1..Len(op.visits) : op.visits[k].e = e}) = 1
           /\ \A k \in 1..Len(op.visits) : op.visits[k].ptr = op.visits[k].live

\* ---------------------------------------------------------------------
\* More claims about Query.Build
\* ---------------------------------------------------------------------
\* C32: the result of Build never holds the same entity twice, whether the
\* candidates come from the includeAny pools (an entity of several of them
\* appears once) or from an include pool.
C32_NoDuplicates ==
    Built =>
        LET ents == QREntities(registry, result)
        IN \A a, b \in 1..Len(ents) : a # b => ents[a] # ents[b]

\* C33 as stated: a second Build of the same query against the unchanged
\* world returns the same sequence of entities as the first, on the include
\* path and on the includeAny path.
C33_BuildDeterministic ==
    Built =>
        \A again \in QueryBuild(registry, query) :
            again.entities = QREntities(registry, result)

\* C33: a second Build of the same query against the unchanged world returns
\* the same set of entities as the first, and the same sequence when the
\* candidates come from include; on the includeAny path the candidates are
\* ranged over in the order of a map and the sequences may differ.
C33_BuildSameSet ==
    Built =>
        \A again \in QueryBuild(registry, query) :
            /\ Range(again.entities) = Range(QREntities(registry, result))
            /\ Len(again.entities) = Len(QREntities(registry, result))
            /\ Len(query.include) > 0 => again.entities = QREntities(registry, result)

\* Build has answered a query of the includeAny path, and a second Build can
\* return the same entities in another order
C33_Witness ==
    /\ Built
    /\ Len(query.include) = 0
    /\ Len(query.includeAny) > 0
    /\ \E again \in QueryBuild(registry, query) :
           /\ again.entities # QREntities(registry, result)
           /\ Range(again.entities) = Range(QREntities(registry, result))

\* the entity is in the pool of every include id of the query
InAllInclude(e) == \A k \in 1..Len(query.include) : e \in PoolSet(query.include[k])

\* the entity is in the pool of some includeAny id of the query
InSomeAny(e) == \E k \in 1..Len(query.includeAny) : e \in PoolSet(query.includeAny[k])

\* C34: when a query has include and includeAny criteria, the candidates are
\* those of the smallest include pool and the includeAny condition is still
\* enforced: an entity that is in every include pool but in none of the
\* includeAny pools is not in the result.
C34_IncludeWithAny ==
    (Built /\ Len(query.include) > 0 /\ Len(query.includeAny) > 0) =>
        LET res == Range(QREntities(registry, result)) IN
        /\ \A e \in UNION {PoolSet(id) : id \in DOMAIN registry.storages} :
               InAllInclude(e) /\ ~InSomeAny(e) => e \notin res
        /\ \A e \in res : InAllInclude(e) /\ InSomeAny(e)
        /\ (\A k \in 1..Len(query.include) : query.include[k] \in DOMAIN registry.storages)
               => res \subseteq PoolSet(FirstSmallest(query.include))

\* Build has answered a query with include and includeAny: one entity of every
\* include pool is in no includeAny pool and is left out, another is returned
C34_Witness ==
    /\ Built
    /\ Len(query.include) > 0
    /\ Len(query.includeAny) > 0
    /\ QRSize(result) > 0
    /\ \E e \in UNION {PoolSet(id) : id \in DOMAIN registry.storages} :
           /\ InAllInclude(e)
           /\ ~InSomeAny(e)
           /\ e \notin Range(QREntities(registry, result))

(***************************************************************************)
(* Claims about the system manager, under SpecSystem                       *)
(***************************************************************************)
\* the number of positions of the sequence that hold x
Occurrences(seq, x) == Cardinality({i \in 1..Len(seq) : seq[i] = x})

\* seq with the positions that hold x left out
Except1(seq, x) == SelectSeq(seq, LAMBDA y : y # x)

\* C35: SystemManager.Update calls Update exactly once on every system that
\* is added and enabled, in the order of AddSystem, and on no system that is
\* disabled or removed; AddSystem puts the system behind those added before,
\* RemoveSystem takes it off the list, and DisableSystem followed by
\* EnableSystem leaves every system at its position.
C35_UpdateOnceInOrder ==
    /\ [](op.name = "Update" =>
            /\ \A system \in Systems :
                   Occurrences(op.calls, system) =
                       IF /\ Occurrences(systemManager.systems, system) > 0
                          /\ SMIsEnabled(systemManager, system)
                       THEN 1 ELSE 0
            /\ op.calls = SelectSeq(systemManager.systems,
                                    LAMBDA system : system \in Range(op.calls)))
    /\ [][/\ op'.name = "AddSystem" =>
              /\ Except1(systemManager'.systems, op'.val)
                     = Except1(systemManager.systems, op'.val)
              /\ systemManager'.systems[Len(systemManager'.systems)] = op'.val
              /\ SMIsEnabled(systemManager', op'.val)
          /\ op'.name = "RemoveSystem" =>
              /\ Occurrences(systemManager'.systems, op'.val) = 0
              /\ Except1(systemManager'.systems, op'.val)
                     = Except1(systemManager.systems, op'.val)
          /\ op'.name \in {"EnableSystem", "DisableSystem"} =>
              systemManager'.systems = systemManager.systems]_vars

(***************************************************************************)
(* Claims about World.Stats, under SpecStats                               *)
(***************************************************************************)
\* the number of components in the world: the pairs of a registered pool and
\* an entity the pool contains
ComponentsPresent ==
    Cardinality({<<id, e>> \in (DOMAIN registry.storages) \X WorldHandles :
                     CPContains(registry.storages[id], e)})

\* C36: after any calls of CreateEntity and DestroyEntity, Stats().EntityCount
\* is the number of entities alive, those created and not destroyed, and
\* TotalComponents is the sum of the sizes of the registered pools.
C36_StatsCountsAlive ==
    op.name = "Stats" =>
        /\ op.stats.EntityCount = Cardinality(live)
        /\ op.stats.TotalComponents = ComponentsPresent

\* C36 as the code has it: EntityCount is the number of entity indices handed
\* out since construction or the last Clear, the destroyed ones included, so
\* it is never below the number of entities alive and DestroyEntity never
\* lowers it; TotalComponents is the number of components present.
C36_StatsCountsCreated ==
    op.name = "Stats" =>
        /\ op.stats.EntityCount = Cardinality({Index(e) : e \in issued})
        /\ op.stats.EntityCount >= Cardinality(live)
        /\ op.stats.TotalComponents = ComponentsPresent

\* Stats is called when every entity created has been destroyed and a pool
\* is registered: the count of entities is that of the indices handed out
C36_Witness ==
    /\ op.name = "Stats"
    /\ live = {}
    /\ destroyed # {}
    /\ op.stats.EntityCount = Cardinality(destroyed)
    /\ op.stats.ComponentTypes > 0

HasNilPool == iter # NoIterator /\ \E k \in 1..Len(iter.pools) : iter.pools[k] = -1

\* C38: an iterator made for a component type that was not registered before
\* has an empty result, so that ForEach makes no round of its loop: the
\* callback is never called and GetPtr is never called on the nil pool,
\* whatever the world contains.
C38_UnregisteredIterator ==
    HasNilPool =>
        /\ QRSize(result) = 0
        /\ iter.pos = 0
        /\ visited = <<>>
        /\ op.name # "panic"
        /\ \A k \in 1..Len(iter.types) : iter.types[k] \in DOMAIN registry.typeToID

\* an iterator of two types or more has a nil pool and a pool that holds
\* entities, in a world with entities alive
C38_Witness ==
    /\ HasNilPool
    /\ op.name = "NewIterator"
    /\ Len(iter.types) >= 2
    /\ live # {}
    /\ \E k \in 1..Len(iter.pools) :
           /\ iter.pools[k] >= 0
           /\ CPSize(registry.storages[iter.pools[k]]) > 0

====
